---- MODULE Spec2Model ----
(***************************************************************************)
(* Hillview photo pipeline: the metadata validator, the hand-built EXIF    *)
(* (TIFF/IFD) encoder and the EXIF decoder of                              *)
(* frontend/src-tauri/src/photo_exif.rs, driven in the order               *)
(* save_photo_from_bytes (device_photos.rs) drives them.                   *)
(*                                                                         *)
(* Numbers.  f64 values are kept as integers on fixed-point grids:         *)
(*   latitude / longitude : 1 unit = 1/1800000 degree (DegUnit per degree) *)
(*       -- a common multiple of the 1e-5 degree input grid and of the     *)
(*       1/360000 degree quantum of the encoder's seconds/100 rational,    *)
(*       so both the input and the decoded value are integers;             *)
(*   bearing              : 1 unit = 1/1000 degree  (BearingUnit)          *)
(*   altitude             : 1 unit = 1/10000 metre  (AltUnit)              *)
(*   accuracy             : 1 unit = 1/10 metre                            *)
(* captured_at (i64 seconds) is kept as the pair (day, sod) with           *)
(* captured_at = day * 86400 + sod, 0 <= sod < 86400, which is how chrono  *)
(* itself splits it; this keeps every number inside TLC's integers.        *)
(* Strings and byte buffers are sequences of bytes (0..255).               *)
(***************************************************************************)
EXTENDS Integers, Sequences, FiniteSets, TLC

VARIABLES
    pc,        \* position of the pipeline
    input,     \* PhotoMetadata supplied by the caller
    meta,      \* validate_photo_metadata(input)
    meta2,     \* validate_photo_metadata(meta)
    now,       \* the wall clock (day, sod) chrono::Utc::now() would return
    ticks,     \* how often the wall clock has advanced
    calls,     \* the wall clock at each create_exif_segment_structured call
    seg,       \* segment of the first create_exif_segment_structured call
    seg2,      \* segment of a second call on the same metadata
    jpeg,      \* the JPEG container after set_exif
    decoded,   \* result of read_photo_exif on the written JPEG
    file,      \* how the file handed to read_photo_exif was made
    chunks,    \* PHOTO_CHUNKS: photo id -> bytes stored so far
    storage,   \* the files save_to_pictures_directory has written
    database,  \* the records add_photo_to_database has accepted
    uploads,   \* how often the upload worker has been triggered
    stored,    \* the store_photo_chunk calls: their number,
               \* and for each photo id the calls on PHOTO_CHUNKS, in lock order
    saved,     \* the save_photo_with_metadata calls, with their results
    holder,    \* PERMISSION_MUTEX: the requester holding the permission lock
    lockLog    \* the calls of the permission lock commands, with their results

pipeVars == <<pc, input, meta, meta2, now, ticks, calls, seg, seg2, jpeg, decoded>>
readVars == <<file>>
saveVars == <<chunks, storage, database, uploads, stored, saved>>
lockVars == <<holder, lockLog>>
vars == <<pipeVars, readVars, saveVars, lockVars>>

-----------------------------------------------------------------------------
(* Option<T> *)
None == [some |-> FALSE, v |-> 0]
Some(x) == [some |-> TRUE, v |-> x]

(* fixed-point grids *)
DegUnit == 18 * 100000
BearingUnit == 10 * 100
AltUnit == 100 * 100
SecondsPerDay == 24 * 3600

Abs(x) == IF x < 0 THEN -x ELSE x

(* Rust's % on numbers: the remainder has the sign of the dividend. *)
fmod(a, b) == IF a >= 0 THEN a % b ELSE -((-a) % b)

(* f64::clamp *)
clamp(x, lo, hi) == IF x < lo THEN lo ELSE IF x > hi THEN hi ELSE x

(* `f as u32` of a non-negative quotient n/d: truncation toward zero,
   saturating at 0 for negative values. *)
as_u32(n, d) == IF n < 0 THEN 0 ELSE n \div d

-----------------------------------------------------------------------------
(* photo_exif.rs: validation *)

OrientationPassThrough(code) == IF code.some THEN code.v ELSE 1

validate_orientation_code(code) ==
    IF code.some /\ code.v \in {1, 3, 6, 8} THEN code.v ELSE 1

LatitudeClampUpperOnly(lat) ==
    IF lat > 90 * DegUnit THEN 90 * DegUnit ELSE lat

validate_latitude(lat) ==
    IF lat < -90 * DegUnit \/ lat > 90 * DegUnit
    THEN clamp(lat, -90 * DegUnit, 90 * DegUnit)
    ELSE lat

LongitudeSingleWrap(lon) ==
    IF lon > 180 * DegUnit THEN lon - 360 * DegUnit
    ELSE IF lon < -180 * DegUnit THEN lon + 360 * DegUnit
    ELSE lon

validate_longitude(lon) ==
    IF lon < -180 * DegUnit \/ lon > 180 * DegUnit
    THEN fmod(lon + 180 * DegUnit, 360 * DegUnit) - 180 * DegUnit
    ELSE lon

BearingNoSecondWrap(b) ==
    IF b.some /\ (b.v < 0 \/ b.v >= 360 * BearingUnit)
    THEN Some(fmod(b.v, 360 * BearingUnit))
    ELSE b

validate_bearing(b) ==
    IF b.some /\ (b.v < 0 \/ b.v >= 360 * BearingUnit)
    THEN Some(fmod(fmod(b.v, 360 * BearingUnit) + 360 * BearingUnit,
                   360 * BearingUnit))
    ELSE b

validate_accuracy(acc) == IF acc < 0 THEN 0 ELSE acc

(* the condition of warn!("Invalid captured_at"): captured_at < 0 or
   captured_at > 4102444800000, the number compared as it is; 4102444800000
   is 47482000 * 86400 *)
MaxTimestampDay == 47482000

captured_at_warning(t) ==
    \/ t.day < 0
    \/ t.day > MaxTimestampDay
    \/ (t.day = MaxTimestampDay /\ t.sod > 0)

ValidateClampingAltitude(m) ==
    [m EXCEPT !.orientation_code = Some(validate_orientation_code(m.orientation_code)),
              !.latitude = validate_latitude(m.latitude),
              !.longitude = validate_longitude(m.longitude),
              !.bearing = validate_bearing(m.bearing),
              !.accuracy = validate_accuracy(m.accuracy),
              !.altitude = IF m.altitude.some
                           THEN Some(clamp(m.altitude.v, -500 * AltUnit, 10000 * AltUnit))
                           ELSE m.altitude]

ValidateSkippingBearing(m) ==
    [m EXCEPT !.orientation_code = Some(validate_orientation_code(m.orientation_code)),
              !.latitude = validate_latitude(m.latitude),
              !.longitude = validate_longitude(m.longitude),
              !.accuracy = validate_accuracy(m.accuracy)]

validate_photo_metadata(m) ==
    [m EXCEPT !.orientation_code = Some(validate_orientation_code(m.orientation_code)),
              !.latitude = validate_latitude(m.latitude),
              !.longitude = validate_longitude(m.longitude),
              !.bearing = validate_bearing(m.bearing),
              !.accuracy = validate_accuracy(m.accuracy)]

-----------------------------------------------------------------------------
(* byte helpers *)

LE16(n) == <<n % 256, (n \div 256) % 256>>
LE32(n) == <<n % 256, (n \div 256) % 256, (n \div 65536) % 256, (n \div 16777216) % 256>>

Zeros(n) == [i \in 1..n |-> 0]

(* Vec::resize(4, 0) *)
resize4(s) == IF Len(s) >= 4 THEN SubSeq(s, 1, 4) ELSE s \o Zeros(4 - Len(s))

(* the concatenation of a sequence of sequences, by halves *)
RECURSIVE Concat(_)
Concat(ss) ==
    IF ss = <<>> THEN <<>>
    ELSE IF Len(ss) = 1 THEN ss[1]
    ELSE Concat(SubSeq(ss, 1, Len(ss) \div 2))
         \o Concat(SubSeq(ss, Len(ss) \div 2 + 1, Len(ss)))

-----------------------------------------------------------------------------
(* photo_exif.rs: exif_tags *)
ORIENTATION == 274
DATE_TIME == 306
DATE_TIME_ORIGINAL == 36867
GPS_IFD_POINTER == 34853
USER_COMMENT == 37510
GPS_VERSION_ID == 0
GPS_LATITUDE_REF == 1
GPS_LATITUDE == 2
GPS_LONGITUDE_REF == 3
GPS_LONGITUDE == 4
GPS_ALTITUDE_REF == 5
GPS_ALTITUDE == 6
GPS_IMG_DIRECTION_REF == 16
GPS_IMG_DIRECTION == 17
GPS_DEST_BEARING_REF == 23
GPS_DEST_BEARING == 24

(* enum ExifValue *)
Short(x) == [kind |-> "Short", v |-> x, s |-> <<>>, r |-> <<>>]
Rational(n, d) == [kind |-> "Rational", v |-> 0, s |-> <<>>, r |-> <<<<n, d>>>>]
Ascii(str) == [kind |-> "Ascii", v |-> 0, s |-> str, r |-> <<>>]
Undefined(bytes) == [kind |-> "Undefined", v |-> 0, s |-> bytes, r |-> <<>>]
Rationals(vals) == [kind |-> "Rationals", v |-> 0, s |-> <<>>, r |-> vals]

ExifEntry(t, val) == [tag |-> t, value |-> val]

(* ExifBuilder::new *)
ExifBuilder_new == [ifd0_entries |-> <<>>, gps_entries |-> <<>>, user_comment |-> None]

-----------------------------------------------------------------------------
(* chrono: DateTime::from_timestamp and format("%Y:%m:%d %H:%M:%S") *)

(* first and last day (since 1970-01-01) of the dates chrono represents *)
ChronoMinDay == -96465292
ChronoMaxDay == 95026236

from_timestamp_ok(ts) == ts.day >= ChronoMinDay /\ ts.day <= ChronoMaxDay

(* proleptic Gregorian date of a day number *)
civil_from_days(day) ==
    LET z == day + 719468
        era == z \div 146097
        doe == z - era * 146097
        yoe == (doe - doe \div 1460 + doe \div 36524 - doe \div 146096) \div 365
        doy == doe - (365 * yoe + yoe \div 4 - yoe \div 100)
        mp == (5 * doy + 2) \div 153
        d == doy - (153 * mp + 2) \div 5 + 1
        m == IF mp < 10 THEN mp + 3 ELSE mp - 9
        y == yoe + era * 400 + (IF m <= 2 THEN 1 ELSE 0)
    IN [year |-> y, month |-> m, day |-> d]

Digit(d) == 48 + d
Pad2(n) == <<Digit((n \div 10) % 10), Digit(n % 10)>>

RECURSIVE Decimal(_)
Decimal(n) == IF n < 10 THEN <<Digit(n)>> ELSE Decimal(n \div 10) \o <<Digit(n % 10)>>

(* %Y: four digits, zero padded; a sign and all digits outside 0..9999 *)
format_year(y) ==
    IF y >= 0 /\ y <= 9999 THEN Pad2(y \div 100) \o Pad2(y % 100)
    ELSE IF y > 9999 THEN <<43>> \o Decimal(y)
    ELSE <<45>> \o (IF -y < 1000 THEN Pad2((-y) \div 100) \o Pad2((-y) % 100)
                    ELSE Decimal(-y))

format_datetime(ts) ==
    LET c == civil_from_days(ts.day)
    IN format_year(c.year) \o <<58>> \o Pad2(c.month) \o <<58>> \o Pad2(c.day)
       \o <<32>> \o Pad2(ts.sod \div 3600) \o <<58>> \o Pad2((ts.sod \div 60) % 60)
       \o <<58>> \o Pad2(ts.sod % 60)

-----------------------------------------------------------------------------
(* photo_exif.rs: ExifBuilder *)

add_orientation(b, orientation) ==
    [b EXCEPT !.ifd0_entries = @ \o <<ExifEntry(ORIENTATION, Short(orientation))>>]

(* unwrap_or_else(|| Utc::now()): the wall clock `clock` is read when chrono
   cannot represent the timestamp. *)
TimestampAlwaysNow(timestamp, clock) == clock

timestamp_datetime(timestamp, clock) ==
    IF from_timestamp_ok(timestamp) THEN timestamp ELSE clock

add_timestamps(b, timestamp, clock) ==
    LET datetime_str == format_datetime(timestamp_datetime(timestamp, clock))
    IN [b EXCEPT !.ifd0_entries = @ \o <<ExifEntry(DATE_TIME, Ascii(datetime_str)),
                                        ExifEntry(DATE_TIME_ORIGINAL, Ascii(datetime_str))>>]

(* degrees, minutes, seconds*100 of an absolute coordinate *)
dms(coord_abs) ==
    LET deg == coord_abs \div DegUnit
        rem == coord_abs - deg * DegUnit
        min == (rem * 60) \div DegUnit
        sec == as_u32((rem - min * (DegUnit \div 60)) * 3600, DegUnit \div 100)
    IN <<<<deg, 1>>, <<min, 1>>, <<sec, 100>>>>

add_gps_data(b, lat, lon, alt) ==
    LET lat_ref == IF lat >= 0 THEN <<78>> ELSE <<83>>
        lon_ref == IF lon >= 0 THEN <<69>> ELSE <<87>>
        base == <<ExifEntry(GPS_VERSION_ID, Undefined(<<2, 3, 0, 0>>)),
                  ExifEntry(GPS_LATITUDE_REF, Ascii(lat_ref)),
                  ExifEntry(GPS_LATITUDE, Rationals(dms(Abs(lat)))),
                  ExifEntry(GPS_LONGITUDE_REF, Ascii(lon_ref)),
                  ExifEntry(GPS_LONGITUDE, Rationals(dms(Abs(lon))))>>
        altitude == IF alt.some
                    THEN <<ExifEntry(GPS_ALTITUDE_REF, Short(0)),
                           ExifEntry(GPS_ALTITUDE,
                                     Rational(as_u32(Abs(alt.v), AltUnit \div 1000), 1000))>>
                    ELSE <<>>
    IN [b EXCEPT !.gps_entries = @ \o base \o altitude]

AddBearingImgOnly(b, bearing) ==
    LET bearing_num == as_u32(bearing, BearingUnit \div 100)
    IN [b EXCEPT !.gps_entries = @ \o
            <<ExifEntry(GPS_IMG_DIRECTION_REF, Ascii(<<84>>)),
              ExifEntry(GPS_IMG_DIRECTION, Rational(bearing_num, 100))>>]

add_bearing(b, bearing) ==
    LET bearing_num == as_u32(bearing, BearingUnit \div 100)
    IN [b EXCEPT !.gps_entries = @ \o
            <<ExifEntry(GPS_IMG_DIRECTION_REF, Ascii(<<84>>)),
              ExifEntry(GPS_IMG_DIRECTION, Rational(bearing_num, 100)),
              ExifEntry(GPS_DEST_BEARING_REF, Ascii(<<84>>)),
              ExifEntry(GPS_DEST_BEARING, Rational(bearing_num, 100))>>]

(* serde_json string escaping: quote, backslash, the short escapes and
   \u00XX for the other control characters *)
HexDigit(d) == IF d < 10 THEN 48 + d ELSE 87 + d

json_escape_byte(c) ==
    IF c = 34 THEN <<92, 34>>
    ELSE IF c = 92 THEN <<92, 92>>
    ELSE IF c = 8 THEN <<92, 98>>
    ELSE IF c = 12 THEN <<92, 102>>
    ELSE IF c = 10 THEN <<92, 110>>
    ELSE IF c = 13 THEN <<92, 114>>
    ELSE IF c = 9 THEN <<92, 116>>
    ELSE IF c < 32 THEN <<92, 117, 48, 48, HexDigit(c \div 16), HexDigit(c % 16)>>
    ELSE <<c>>

json_escape(str) == Concat([i \in 1..Len(str) |-> json_escape_byte(str[i])])

(* serde_json::to_string(&ProvenanceData):
   {"location_source":"...","bearing_source":"..."} *)
KeyLocation == <<123, 34, 108, 111, 99, 97, 116, 105, 111, 110, 95, 115, 111, 117, 114, 99, 101, 34, 58, 34>>
KeyBearing == <<34, 44, 34, 98, 101, 97, 114, 105, 110, 103, 95, 115, 111, 117, 114, 99, 101, 34, 58, 34>>
JsonClose == <<34, 125>>

provenance_to_json(location_source, bearing_source) ==
    KeyLocation \o json_escape(location_source) \o KeyBearing
    \o json_escape(bearing_source) \o JsonClose

MAX_COMMENT_SIZE == 1000
CharacterCode == <<65, 83, 67, 73, 73, 0, 0, 0>>

add_provenance(b, location_source, bearing_source) ==
    LET provenance_json == provenance_to_json(location_source, bearing_source)
        comment_bytes == IF Len(provenance_json) > MAX_COMMENT_SIZE
                         THEN SubSeq(provenance_json, 1, MAX_COMMENT_SIZE)
                         ELSE provenance_json
    IN [b EXCEPT !.user_comment = Some(CharacterCode \o comment_bytes)]

(* Vec::sort_by_key(|e| e.tag): a stable sort *)
RECURSIVE insert_by_tag(_, _)
insert_by_tag(sorted, e) ==
    IF sorted = <<>> THEN <<e>>
    ELSE IF sorted[Len(sorted)].tag <= e.tag THEN Append(sorted, e)
    ELSE Append(insert_by_tag(SubSeq(sorted, 1, Len(sorted) - 1), e), sorted[Len(sorted)])

RECURSIVE sort_by_tag(_)
sort_by_tag(entries) ==
    IF entries = <<>> THEN <<>>
    ELSE insert_by_tag(sort_by_tag(SubSeq(entries, 1, Len(entries) - 1)),
                       entries[Len(entries)])

(* ExifBuilder::write_ifd_entry: the 12 bytes of one IFD0 entry *)
WriteIfdEntryNoPadding(entry) ==
    LE16(entry.tag) \o
    (IF entry.value.kind = "Short"
     THEN <<3, 0>> \o <<1, 0, 0, 0>> \o LE16(entry.value.v)
     ELSE IF entry.value.kind = "Ascii"
     THEN <<2, 0>> \o LE32(Len(entry.value.s) + 1)
          \o resize4(SubSeq(entry.value.s, 1,
                            IF Len(entry.value.s) < 3 THEN Len(entry.value.s) ELSE 3)
                     \o <<0>>)
     ELSE Zeros(8))

write_ifd_entry(entry) ==
    LE16(entry.tag) \o
    (IF entry.value.kind = "Short"
     THEN <<3, 0>> \o <<1, 0, 0, 0>> \o LE16(entry.value.v) \o <<0, 0>>
     ELSE IF entry.value.kind = "Ascii"
     THEN LET bytes == entry.value.s
              count == Len(bytes) + 1
          IN <<2, 0>> \o LE32(count) \o
             (IF count <= 4
              THEN resize4(bytes \o <<0>>)
              ELSE resize4(SubSeq(bytes, 1, IF Len(bytes) < 3 THEN Len(bytes) ELSE 3)
                           \o <<0>>))
     ELSE Zeros(8))

WriteGpsEntryAdvanceEight(entry, data_offset) ==
    LET val == entry.value
        tag == LE16(entry.tag)
    IN IF val.kind = "Undefined"
       THEN IF Len(val.s) <= 4
            THEN [bytes |-> tag \o <<1, 0>> \o LE32(Len(val.s)) \o resize4(val.s),
                  off |-> data_offset]
            ELSE [bytes |-> tag \o <<1, 0>> \o LE32(Len(val.s)) \o LE32(data_offset),
                  off |-> data_offset + Len(val.s)]
       ELSE IF val.kind = "Ascii"
       THEN LET count == Len(val.s) + 1
            IN IF count <= 4
               THEN [bytes |-> tag \o <<2, 0>> \o LE32(count) \o resize4(val.s \o <<0>>),
                     off |-> data_offset]
               ELSE [bytes |-> tag \o <<2, 0>> \o LE32(count) \o LE32(data_offset),
                     off |-> data_offset + count]
       ELSE IF val.kind = "Short"
       THEN [bytes |-> tag \o <<3, 0>> \o <<1, 0, 0, 0>> \o LE16(val.v) \o <<0, 0>>,
             off |-> data_offset]
       ELSE IF val.kind = "Rational"
       THEN [bytes |-> tag \o <<5, 0>> \o <<1, 0, 0, 0>> \o LE32(data_offset),
             off |-> data_offset + 8]
       ELSE IF val.kind = "Rationals"
       THEN [bytes |-> tag \o <<5, 0>> \o LE32(Len(val.r)) \o LE32(data_offset),
             off |-> data_offset + 8]
       ELSE [bytes |-> tag \o Zeros(8), off |-> data_offset]

(* ExifBuilder::write_gps_entry: the 12 bytes of one GPS entry and the data
   offset after it *)
write_gps_entry(entry, data_offset) ==
    LET val == entry.value
        tag == LE16(entry.tag)
    IN IF val.kind = "Undefined"
       THEN IF Len(val.s) <= 4
            THEN [bytes |-> tag \o <<1, 0>> \o LE32(Len(val.s)) \o resize4(val.s),
                  off |-> data_offset]
            ELSE [bytes |-> tag \o <<1, 0>> \o LE32(Len(val.s)) \o LE32(data_offset),
                  off |-> data_offset + Len(val.s)]
       ELSE IF val.kind = "Ascii"
       THEN LET count == Len(val.s) + 1
            IN IF count <= 4
               THEN [bytes |-> tag \o <<2, 0>> \o LE32(count) \o resize4(val.s \o <<0>>),
                     off |-> data_offset]
               ELSE [bytes |-> tag \o <<2, 0>> \o LE32(count) \o LE32(data_offset),
                     off |-> data_offset + count]
       ELSE IF val.kind = "Short"
       THEN [bytes |-> tag \o <<3, 0>> \o <<1, 0, 0, 0>> \o LE16(val.v) \o <<0, 0>>,
             off |-> data_offset]
       ELSE IF val.kind = "Rational"
       THEN [bytes |-> tag \o <<5, 0>> \o <<1, 0, 0, 0>> \o LE32(data_offset),
             off |-> data_offset + 8]
       ELSE IF val.kind = "Rationals"
       THEN [bytes |-> tag \o <<5, 0>> \o LE32(Len(val.r)) \o LE32(data_offset),
             off |-> data_offset + Len(val.r) * 8]
       ELSE [bytes |-> tag \o Zeros(8), off |-> data_offset]

(* the loop over gps_entries in build: entries written from data offset `off` *)
RECURSIVE write_gps_entries(_, _, _)
write_gps_entries(entries, off, acc) ==
    IF entries = <<>> THEN acc
    ELSE write_gps_entries(Tail(entries), write_gps_entry(Head(entries), off).off,
                           acc \o write_gps_entry(Head(entries), off).bytes)

rationals_bytes(r) == Concat([i \in 1..Len(r) |-> LE32(r[i][1]) \o LE32(r[i][2])])

(* one entry's share of ExifBuilder::write_gps_data_values *)
gps_data_value(entry) ==
    LET val == entry.value
    IN IF val.kind \in {"Rational", "Rationals"} THEN rationals_bytes(val.r)
       ELSE IF val.kind = "Undefined" /\ Len(val.s) > 4 THEN val.s
       ELSE IF val.kind = "Ascii" /\ Len(val.s) + 1 > 4 THEN val.s \o <<0>>
       ELSE <<>>

write_gps_data_values(entries) ==
    Concat([i \in 1..Len(entries) |-> gps_data_value(entries[i])])

GpsDataSizeOneRational(entry) ==
    LET val == entry.value
    IN IF val.kind \in {"Rational", "Rationals"} THEN 8
       ELSE IF val.kind = "Undefined" /\ Len(val.s) > 4 THEN Len(val.s)
       ELSE IF val.kind = "Ascii" /\ Len(val.s) + 1 > 4 THEN Len(val.s) + 1
       ELSE 0

(* one entry's share of ExifBuilder::calculate_gps_data_size *)
gps_data_size(entry) ==
    LET val == entry.value
    IN IF val.kind = "Rational" THEN 8
       ELSE IF val.kind = "Rationals" THEN Len(val.r) * 8
       ELSE IF val.kind = "Undefined" /\ Len(val.s) > 4 THEN Len(val.s)
       ELSE IF val.kind = "Ascii" /\ Len(val.s) + 1 > 4 THEN Len(val.s) + 1
       ELSE 0

RECURSIVE calculate_gps_data_size(_)
calculate_gps_data_size(entries) ==
    IF entries = <<>> THEN 0
    ELSE gps_data_size(Head(entries)) + calculate_gps_data_size(Tail(entries))

(* pad-to-offset loops of build: while exif_data.len() < offset push 0 *)
pad_to(data, offset) ==
    IF Len(data) < offset THEN data \o Zeros(offset - Len(data)) ELSE data

(* ExifBuilder::build *)
build(b) ==
    LET ifd0_entries == sort_by_tag(b.ifd0_entries)
        gps_entries == sort_by_tag(b.gps_entries)
        header == <<73, 73>> \o <<42, 0>> \o <<8, 0, 0, 0>>
        has_gps == gps_entries # <<>>
        has_user_comment == b.user_comment.some
        comment == b.user_comment.v
        ifd0_entry_count == Len(ifd0_entries) + (IF has_gps THEN 1 ELSE 0)
                            + (IF has_user_comment THEN 1 ELSE 0)
        ifd0_base == 8
        ifd0_size == 2 + ifd0_entry_count * 12 + 4
        gps_ifd_offset == ifd0_base + ifd0_size
        gps_size == IF has_gps
                    THEN 2 + Len(gps_entries) * 12 + 4 + calculate_gps_data_size(gps_entries)
                    ELSE 0
        comment_offset == gps_ifd_offset + gps_size
        d1 == header \o LE16(ifd0_entry_count)
              \o Concat([i \in 1..Len(ifd0_entries) |-> write_ifd_entry(ifd0_entries[i])])
        d2 == IF has_gps
              THEN d1 \o LE16(GPS_IFD_POINTER) \o <<4, 0>> \o <<1, 0, 0, 0>>
                      \o LE32(gps_ifd_offset)
              ELSE d1
        d3 == IF has_user_comment
              THEN d2 \o LE16(USER_COMMENT) \o <<7, 0>> \o LE32(Len(comment))
                      \o (IF Len(comment) <= 4 THEN resize4(comment)
                          ELSE LE32(comment_offset))
              ELSE d2
        d4 == d3 \o <<0, 0, 0, 0>>
        gps_data_offset == gps_ifd_offset + 2 + Len(gps_entries) * 12 + 4
        d5 == IF has_gps
              THEN pad_to(d4, gps_ifd_offset) \o LE16(Len(gps_entries))
                   \o write_gps_entries(gps_entries, gps_data_offset, <<>>)
                   \o <<0, 0, 0, 0>>
                   \o write_gps_data_values(gps_entries)
              ELSE d4
    IN IF has_user_comment /\ Len(comment) > 4
       THEN pad_to(d5, comment_offset) \o comment
       ELSE d5

(* the builder create_exif_segment_structured fills before build *)
structured_builder(metadata, clock) ==
    LET b0 == ExifBuilder_new
        b1 == IF metadata.orientation_code.some
              THEN add_orientation(b0, metadata.orientation_code.v) ELSE b0
        b2 == add_timestamps(b1, metadata.captured_at, clock)
        b3 == add_gps_data(b2, metadata.latitude, metadata.longitude, metadata.altitude)
        b4 == IF metadata.bearing.some THEN add_bearing(b3, metadata.bearing.v) ELSE b3
    IN add_provenance(b4, metadata.location_source, metadata.bearing_source)

create_exif_segment_structured(metadata, clock) ==
    build(structured_builder(metadata, clock))

-----------------------------------------------------------------------------
(* img_parts::jpeg::Jpeg as the pipeline uses it: the APP1 EXIF segment is
   the only part the metadata path reads or writes.  set_exif stores the
   segment behind the "Exif\0\0" prefix; exif() returns the contents of the
   APP1 segment that starts with the prefix, with the prefix removed. *)
ExifPrefix == <<69, 120, 105, 102, 0, 0>>

StartsWithFirstByte(data, prefix) ==
    Len(data) >= 1 /\ Len(prefix) >= 1 /\ data[1] = prefix[1]

starts_with(data, prefix) ==
    Len(data) >= Len(prefix) /\ SubSeq(data, 1, Len(prefix)) = prefix

jpeg_without_exif == [app1 |-> None]

set_exif(j, segment) == [j EXCEPT !.app1 = Some(ExifPrefix \o segment)]

jpeg_exif(j) ==
    IF j.app1.some /\ starts_with(j.app1.v, ExifPrefix)
    THEN Some(SubSeq(j.app1.v, Len(ExifPrefix) + 1, Len(j.app1.v)))
    ELSE None

-----------------------------------------------------------------------------
(* exif::Reader::read_raw (the kamadak-exif TIFF parser read_photo_exif
   calls).  Offsets are counted from 0 as in the file; data[o + 1] is the
   byte at offset o. *)

loadu16(data, o, le) ==
    IF le THEN data[o + 1] + 256 * data[o + 2] ELSE data[o + 2] + 256 * data[o + 1]

(* a u32; values of 2^31 and more are only ever compared with buffer
   lengths, so they are kept as the largest number below 2^31 *)
loadu32(data, o, le) ==
    LET b0 == IF le THEN data[o + 1] ELSE data[o + 4]
        b1 == IF le THEN data[o + 2] ELSE data[o + 3]
        b2 == IF le THEN data[o + 3] ELSE data[o + 2]
        b3 == IF le THEN data[o + 4] ELSE data[o + 1]
    IN IF b3 >= 128 THEN 2147483647
       ELSE b0 + 256 * b1 + 65536 * b2 + 16777216 * b3

(* get_type_info: the size of one unit of a TIFF type *)
unitlen(typ) ==
    IF typ \in {1, 2, 6, 7} THEN 1
    ELSE IF typ \in {3, 8} THEN 2
    ELSE IF typ \in {4, 9, 11} THEN 4
    ELSE IF typ \in {5, 10, 12} THEN 8
    ELSE 0

EXIF_IFD_POINTER == 34665
INTEROP_IFD_POINTER == 40965

(* parse_ifd_entry: the field of the entry at offset o, or an error when the
   out-of-line value does not lie inside the buffer ("Truncated field value") *)
parse_ifd_entry(data, o, le) ==
    LET typ == loadu16(data, o + 2, le)
        cnt == loadu32(data, o + 4, le)
        vallen == unitlen(typ) * cnt
        ofs == loadu32(data, o + 8, le)
    IN IF vallen <= 4
       THEN [ok |-> TRUE, tag |-> loadu16(data, o, le), typ |-> typ, cnt |-> cnt,
             ofs |-> o + 8]
       ELSE IF Len(data) < ofs \/ Len(data) - ofs < vallen
       THEN [ok |-> FALSE, tag |-> 0, typ |-> 0, cnt |-> 0, ofs |-> 0]
       ELSE [ok |-> TRUE, tag |-> loadu16(data, o, le), typ |-> typ, cnt |-> cnt,
             ofs |-> ofs]

ParseError == [ok |-> FALSE, fields |-> <<>>, next |-> 0]

child_context(ctx, tag) ==
    IF ctx = "Tiff" /\ tag = EXIF_IFD_POINTER THEN "Exif"
    ELSE IF ctx = "Tiff" /\ tag = GPS_IFD_POINTER THEN "Gps"
    ELSE IF ctx = "Exif" /\ tag = INTEROP_IFD_POINTER THEN "Interop"
    ELSE "none"

RECURSIVE parse_ifd(_, _, _, _, _, _)
RECURSIVE parse_entries(_, _, _, _, _, _, _)

(* the entry loop of parse_ifd: `count` entries from offset o, appended to
   the fields `acc` read so far *)
parse_entries(data, o, count, ctx, ifd_num, le, acc) ==
    IF count = 0
    THEN IF Len(data) - o < 4 THEN ParseError
         ELSE [ok |-> TRUE, fields |-> acc, next |-> loadu32(data, o, le)]
    ELSE IF Len(data) - o < 12 THEN ParseError
    ELSE LET e == parse_ifd_entry(data, o, le)
             child == child_context(ctx, e.tag)
         IN IF ~e.ok THEN ParseError
            ELSE IF child = "none"
            THEN parse_entries(data, o + 12, count - 1, ctx, ifd_num, le,
                               Append(acc, [ctx |-> ctx, ifd_num |-> ifd_num, tag |-> e.tag,
                                            typ |-> e.typ, cnt |-> e.cnt, ofs |-> e.ofs]))
            \* parse_child_ifd: the pointer must hold an unsigned integer and the
            \* child IFD must not chain to another one
            ELSE IF ~(e.typ \in {1, 3, 4} /\ e.cnt >= 1) THEN ParseError
            ELSE LET ptr == IF e.typ = 1 THEN data[e.ofs + 1]
                            ELSE IF e.typ = 3 THEN loadu16(data, e.ofs, le)
                            ELSE loadu32(data, e.ofs, le)
                     sub == parse_ifd(data, ptr, child, ifd_num, le, acc)
                 IN IF ~sub.ok \/ sub.next # 0 THEN ParseError
                    ELSE parse_entries(data, o + 12, count - 1, ctx, ifd_num, le, sub.fields)

parse_ifd(data, offset, ctx, ifd_num, le, acc) ==
    IF Len(data) < offset \/ Len(data) - offset < 2 THEN ParseError
    ELSE parse_entries(data, offset + 2, loadu16(data, offset, le), ctx, ifd_num, le, acc)

(* parse_sub: the chain of IFDs, at most 8 *)
RECURSIVE parse_chain(_, _, _, _, _)
parse_chain(data, ifd_offset, ifd_num, le, acc) ==
    IF ifd_offset = 0 THEN [ok |-> TRUE, fields |-> acc, next |-> 0]
    ELSE IF ifd_num >= 8 THEN ParseError
    ELSE LET ifd == parse_ifd(data, ifd_offset, "Tiff", ifd_num, le, acc)
         IN IF ~ifd.ok THEN ParseError
            ELSE parse_chain(data, ifd.next, ifd_num + 1, le, ifd.fields)

(* Reader::read_raw: the byte order, the 42 and the IFD chain *)
read_raw(data) ==
    IF Len(data) < 8 THEN ParseError
    ELSE IF SubSeq(data, 1, 2) \notin {<<73, 73>>, <<77, 77>>} THEN ParseError
    ELSE LET le == SubSeq(data, 1, 2) = <<73, 73>>
         IN IF loadu16(data, 2, le) # 42 THEN ParseError
            ELSE parse_chain(data, loadu32(data, 4, le), 0, le, <<>>)

(* Exif::get_field(tag, In::PRIMARY): the field of IFD 0 with that context
   and tag number; the last one when a tag occurs twice *)
get_field(fields, ctx, tag) ==
    LET hits == {i \in 1..Len(fields) :
                    fields[i].ctx = ctx /\ fields[i].tag = tag /\ fields[i].ifd_num = 0}
    IN IF hits = {} THEN None
       ELSE Some(fields[CHOOSE i \in hits : \A j \in hits : j <= i])

(* Value::Short / Value::Rational / Value::Ascii / Value::Undefined of a field *)
short_values(data, f, le) == [i \in 1..f.cnt |-> loadu16(data, f.ofs + 2 * (i - 1), le)]

rational_values(data, f, le) ==
    [i \in 1..f.cnt |-> <<loadu32(data, f.ofs + 8 * (i - 1), le),
                          loadu32(data, f.ofs + 8 * (i - 1) + 4, le)>>]

field_bytes(data, f) == SubSeq(data, f.ofs + 1, f.ofs + f.cnt)

(* parse_ascii splits the value at NULs and drops an empty last string:
   until_nul is the first string, which exists unless the count is 0 *)
until_nul(bytes) ==
    LET nuls == {k \in 1..Len(bytes) : bytes[k] = 0}
    IN IF nuls = {} THEN bytes
       ELSE SubSeq(bytes, 1, (CHOOSE k \in nuls : \A l \in nuls : k <= l) - 1)

ascii_nonempty(bytes) == bytes # <<>>


-----------------------------------------------------------------------------
(* chrono::NaiveDateTime::parse_from_str(s, "%Y:%m:%d %H:%M:%S") and
   and_utc().timestamp(), for the 19-character form with a 4-digit year *)

is_digit(c) == c >= 48 /\ c <= 57
num2(s, i) == (s[i] - 48) * 10 + (s[i + 1] - 48)

days_in_month(y, m) ==
    IF m = 2 THEN (IF (y % 4 = 0 /\ y % 100 # 0) \/ y % 400 = 0 THEN 29 ELSE 28)
    ELSE IF m \in {4, 6, 9, 11} THEN 30 ELSE 31

days_from_civil(year, m, d) ==
    LET y == IF m <= 2 THEN year - 1 ELSE year
        era == y \div 400
        yoe == y - era * 400
        doy == (153 * (IF m > 2 THEN m - 3 ELSE m + 9) + 2) \div 5 + d - 1
        doe == yoe * 365 + yoe \div 4 - yoe \div 100 + doy
    IN era * 146097 + doe - 719468

parse_datetime(s) ==
    IF Len(s) # 19 THEN None
    ELSE IF ~(\A i \in {1, 2, 3, 4, 6, 7, 9, 10, 12, 13, 15, 16, 18, 19} : is_digit(s[i]))
    THEN None
    ELSE IF ~(s[5] = 58 /\ s[8] = 58 /\ s[11] = 32 /\ s[14] = 58 /\ s[17] = 58) THEN None
    ELSE LET y == num2(s, 1) * 100 + num2(s, 3)
             mo == num2(s, 6)
             d == num2(s, 9)
             h == num2(s, 12)
             mi == num2(s, 15)
             sec == num2(s, 18)
         IN IF mo < 1 \/ mo > 12 \/ d < 1 \/ d > days_in_month(y, mo)
               \/ h > 23 \/ mi > 59 \/ sec > 60
            THEN None
            ELSE Some([day |-> days_from_civil(y, mo, d),
                       sod |-> h * 3600 + mi * 60 + (IF sec = 60 THEN 59 ELSE sec)])

(* serde_json::from_str::<ProvenanceData> on the compact object the encoder
   writes: two string members, location_source then bearing_source *)
hex_value(c) ==
    IF c >= 48 /\ c <= 57 THEN c - 48
    ELSE IF c >= 97 /\ c <= 102 THEN c - 87
    ELSE IF c >= 65 /\ c <= 70 THEN c - 55
    ELSE -1

JsonFail == [ok |-> FALSE, str |-> <<>>, next |-> 0]

(* a JSON string body from index i of `bytes` up to its closing quote; `acc`
   is the text decoded so far, `next` the index after the closing quote *)
RECURSIVE parse_json_string(_, _, _)
parse_json_string(bytes, i, acc) ==
    IF i > Len(bytes) THEN JsonFail
    ELSE IF bytes[i] = 34 THEN [ok |-> TRUE, str |-> acc, next |-> i + 1]
    ELSE IF bytes[i] < 32 THEN JsonFail
    ELSE IF bytes[i] # 92
    THEN \* a run of plain characters is taken at once
         LET stops == {k \in i..Len(bytes) : bytes[k] = 34 \/ bytes[k] = 92 \/ bytes[k] < 32}
             stop == IF stops = {} THEN Len(bytes) + 1
                     ELSE CHOOSE k \in stops : \A l \in stops : k <= l
         IN parse_json_string(bytes, stop, acc \o SubSeq(bytes, i, stop - 1))
    ELSE IF i + 1 > Len(bytes) THEN JsonFail
    ELSE LET e == bytes[i + 1]
             simple == IF e = 34 THEN 34 ELSE IF e = 92 THEN 92 ELSE IF e = 47 THEN 47
                       ELSE IF e = 98 THEN 8 ELSE IF e = 102 THEN 12
                       ELSE IF e = 110 THEN 10 ELSE IF e = 114 THEN 13
                       ELSE IF e = 116 THEN 9 ELSE -1
         IN IF simple >= 0 THEN parse_json_string(bytes, i + 2, Append(acc, simple))
            ELSE IF e = 117 /\ i + 5 <= Len(bytes) /\ bytes[i + 2] = 48 /\ bytes[i + 3] = 48
                    /\ hex_value(bytes[i + 4]) \in 0..7 /\ hex_value(bytes[i + 5]) >= 0
            THEN parse_json_string(bytes, i + 6,
                     Append(acc, hex_value(bytes[i + 4]) * 16 + hex_value(bytes[i + 5])))
            ELSE JsonFail

ProvenanceFail == [ok |-> FALSE, location_source |-> <<>>, bearing_source |-> <<>>]

parse_provenance(text) ==
    IF ~starts_with(text, KeyLocation) THEN ProvenanceFail
    ELSE LET loc == parse_json_string(text, Len(KeyLocation) + 1, <<>>)
             sep == Tail(KeyBearing)
         IN IF ~loc.ok THEN ProvenanceFail
            ELSE IF ~starts_with(SubSeq(text, loc.next, Len(text)), sep) THEN ProvenanceFail
            ELSE LET bea == parse_json_string(text, loc.next + Len(sep), <<>>)
                 IN IF bea.ok /\ bea.next = Len(text) /\ text[Len(text)] = 125
                    THEN [ok |-> TRUE, location_source |-> loc.str,
                          bearing_source |-> bea.str]
                    ELSE ProvenanceFail

(* std::str::from_utf8 on the strings of the model, which are ASCII *)
from_utf8_ok(bytes) == \A i \in 1..Len(bytes) : bytes[i] < 128

-----------------------------------------------------------------------------
(* photo_exif.rs: read_photo_exif *)

Unknown == <<117, 110, 107, 110, 111, 119, 110>>

DefaultMetadata ==
    [latitude |-> 0, longitude |-> 0, altitude |-> None, bearing |-> None,
     captured_at |-> [day |-> 0, sod |-> 0], accuracy |-> 0,
     location_source |-> Unknown, bearing_source |-> Unknown,
     orientation_code |-> None]

(* Rational::to_f64 scaled to `unit` per whole; the encoder's denominators
   divide the grids, a zero denominator (an f64 infinity) is not on them *)
to_f64(rat, unit) ==
    IF rat[2] = 0 THEN 0
    ELSE IF unit % rat[2] = 0 THEN rat[1] * (unit \div rat[2])
    ELSE (rat[1] * unit) \div rat[2]

(* degrees + minutes / 60 + seconds / 3600, negated when the reference
   starts with `neg` *)
read_coordinate(data, fields, le, tag, ref_tag, neg, default) ==
    LET f == get_field(fields, "Gps", tag)
        rf == get_field(fields, "Gps", ref_tag)
    IN IF f.some /\ rf.some /\ f.v.typ = 5 /\ f.v.cnt >= 3
       THEN LET coords == rational_values(data, f.v, le)
                value == to_f64(coords[1], DegUnit) + to_f64(coords[2], DegUnit \div 60)
                         + to_f64(coords[3], DegUnit \div 3600)
                ref == field_bytes(data, rf.v)
            IN IF rf.v.typ = 2 /\ ascii_nonempty(ref) /\ starts_with(until_nul(ref), <<neg>>)
               THEN -value ELSE value
       ELSE default

read_rational(data, fields, le, tag, unit) ==
    LET f == get_field(fields, "Gps", tag)
    IN IF f.some /\ f.v.typ = 5 /\ f.v.cnt >= 1
       THEN Some(to_f64(rational_values(data, f.v, le)[1], unit))
       ELSE None

ReadOrientationAnyInteger(data, fields, le) ==
    LET f == get_field(fields, "Tiff", ORIENTATION)
    IN IF f.some /\ f.v.typ \in {3, 4} /\ f.v.cnt >= 1
       THEN Some(short_values(data, f.v, le)[1])
       ELSE None

read_orientation(data, fields, le) ==
    LET f == get_field(fields, "Tiff", ORIENTATION)
    IN IF f.some /\ f.v.typ = 3 /\ f.v.cnt >= 1
       THEN Some(short_values(data, f.v, le)[1])
       ELSE None

read_timestamp(data, fields, default) ==
    LET f == get_field(fields, "Tiff", DATE_TIME)
    IN IF f.some /\ f.v.typ = 2 /\ ascii_nonempty(field_bytes(data, f.v))
       THEN LET s == until_nul(field_bytes(data, f.v))
                dt == IF from_utf8_ok(s) THEN parse_datetime(s) ELSE None
            IN IF dt.some THEN dt.v ELSE default
       ELSE default

(* Tag::UserComment is the tag 0x9286 of the Exif IFD *)
read_provenance(data, fields) ==
    LET f == get_field(fields, "Exif", USER_COMMENT)
    IN IF f.some /\ f.v.typ = 7 /\ f.v.cnt > 8
       THEN LET comment_text == SubSeq(field_bytes(data, f.v), 9, f.v.cnt)
            IN IF from_utf8_ok(comment_text) THEN parse_provenance(comment_text)
               ELSE ProvenanceFail
       ELSE ProvenanceFail

ReadErr(why) == [ok |-> FALSE, err |-> why, m |-> DefaultMetadata]

read_photo_exif(j) ==
    LET exif_data == jpeg_exif(j)
    IN IF ~exif_data.some THEN ReadErr("No EXIF data found")
       ELSE LET has_prefix == starts_with(exif_data.v, ExifPrefix)
                has_tiff == starts_with(exif_data.v, <<73, 73>>)
                            \/ starts_with(exif_data.v, <<77, 77>>)
                tiff_data == IF has_prefix
                             THEN SubSeq(exif_data.v, 7, Len(exif_data.v))
                             ELSE exif_data.v
            IN IF ~has_prefix /\ ~has_tiff THEN ReadErr("Invalid EXIF format")
               ELSE LET parsed == read_raw(tiff_data)
                        le == starts_with(tiff_data, <<73, 73>>)
                        prov == read_provenance(tiff_data, parsed.fields)
                    IN IF ~parsed.ok THEN ReadErr("Failed to read EXIF")
                       ELSE [ok |-> TRUE, err |-> "",
                             m |-> [latitude |-> read_coordinate(tiff_data, parsed.fields, le,
                                        GPS_LATITUDE, GPS_LATITUDE_REF, 83, 0),
                                    longitude |-> read_coordinate(tiff_data, parsed.fields, le,
                                        GPS_LONGITUDE, GPS_LONGITUDE_REF, 87, 0),
                                    altitude |-> read_rational(tiff_data, parsed.fields, le,
                                        GPS_ALTITUDE, AltUnit),
                                    bearing |-> read_rational(tiff_data, parsed.fields, le,
                                        GPS_IMG_DIRECTION, BearingUnit),
                                    captured_at |-> read_timestamp(tiff_data, parsed.fields,
                                        [day |-> 0, sod |-> 0]),
                                    accuracy |-> 0,
                                    location_source |-> IF prov.ok THEN prov.location_source
                                                        ELSE Unknown,
                                    bearing_source |-> IF prov.ok THEN prov.bearing_source
                                                       ELSE Unknown,
                                    orientation_code |-> read_orientation(tiff_data,
                                        parsed.fields, le)]]


-----------------------------------------------------------------------------
(* The inputs.  Coordinates are given in 1e-5 degree (18 units), bearings in
   1e-3 degree, altitudes in 1e-4 metre. *)

MaxTicks == 2
LongSourceLen == 980

Manual == <<109, 97, 110, 117, 97, 108>>
Sensor == <<115, 101, 110, 115, 111, 114>>
Quoted == <<97, 34, 98, 92, 10>>
LongSource == [i \in 1..LongSourceLen |-> 97]

Deg5(x) == x * 18

Latitudes == {Deg5(4885660), Deg5(-3386880), 0, Deg5(-1), Deg5(9000000),
              Deg5(9100000), Deg5(-12345678)}
Longitudes == {Deg5(235220), Deg5(-15120930), Deg5(18000000), Deg5(19000000),
               Deg5(-19000000), Deg5(-55000000), Deg5(54000000), Deg5(-18000001)}
Altitudes == {None, Some(350000), Some(-1005000), Some(12345678), Some(-6000000),
              Some(120000000)}
Bearings == {None, Some(274500), Some(-10000), Some(720000), Some(359999),
             Some(0), Some(-725500), Some(360000)}
Timestamps == {[day |-> 19675, sod |-> 80000], [day |-> 0, sod |-> 0],
               [day |-> 19675925, sod |-> 80000], [day |-> 100000000, sod |-> 7],
               [day |-> -100000000, sod |-> 7]}
Accuracies == {50, 0, -10}
Orientations == {None, Some(1), Some(3), Some(6), Some(8), Some(2), Some(0),
                 Some(65535)}
Sources == {Manual, Sensor, Quoted, Unknown, LongSource, <<>>}

Base ==
    [latitude |-> Deg5(4885660), longitude |-> Deg5(235220), altitude |-> None,
     bearing |-> None, captured_at |-> [day |-> 19675, sod |-> 80000],
     accuracy |-> 50, location_source |-> Manual, bearing_source |-> Manual,
     orientation_code |-> None]

Inputs ==
    {[Base EXCEPT !.latitude = la, !.longitude = lo] :
        la \in Latitudes, lo \in Longitudes}
    \cup {[Base EXCEPT !.altitude = a, !.bearing = b, !.orientation_code = o] :
        a \in Altitudes, b \in Bearings, o \in {None, Some(6)}}
    \cup {[Base EXCEPT !.captured_at = t, !.accuracy = c, !.orientation_code = o] :
        t \in Timestamps, c \in Accuracies, o \in Orientations}
    \cup {[Base EXCEPT !.location_source = l, !.bearing_source = b,
                       !.bearing = Some(274500)] :
        l \in Sources, b \in Sources}

(* the wall clock when the pipeline starts: 2029-12-31 23:59:59 UTC *)
ClockStart == [day |-> 21914, sod |-> 86399]

NoResult == [ok |-> FALSE, err |-> "not run", m |-> DefaultMetadata]

-----------------------------------------------------------------------------
(* The pipeline *)

(* the components a specification does not use stay as they start *)
NoStore == [count |-> 0, log |-> <<>>]

IdleRead == file = "none"
IdleSave ==
    /\ chunks = <<>>
    /\ storage = {}
    /\ database = {}
    /\ uploads = 0
    /\ stored = NoStore
    /\ saved = <<>>
IdleLock ==
    /\ holder = None
    /\ lockLog = <<>>

Init ==
    /\ pc = "start"
    /\ input \in Inputs
    /\ meta = DefaultMetadata
    /\ meta2 = DefaultMetadata
    /\ now = ClockStart
    /\ ticks = 0
    /\ calls = <<>>
    /\ seg = <<>>
    /\ seg2 = <<>>
    /\ jpeg = jpeg_without_exif
    /\ decoded = NoResult
    /\ IdleRead
    /\ IdleSave
    /\ IdleLock

(* the wall clock advances by a second *)
Tick ==
    /\ ticks < MaxTicks
    /\ ticks' = ticks + 1
    /\ now' = IF now.sod + 1 < SecondsPerDay THEN [now EXCEPT !.sod = @ + 1]
              ELSE [day |-> now.day + 1, sod |-> 0]
    /\ UNCHANGED <<pc, input, meta, meta2, calls, seg, seg2, jpeg, decoded>>
    /\ UNCHANGED <<readVars, saveVars, lockVars>>

(* save_photo_from_bytes: validate_photo_metadata(metadata.clone()) *)
Validate ==
    /\ pc = "start"
    /\ meta' = validate_photo_metadata(input)
    /\ pc' = "validated"
    /\ UNCHANGED <<input, meta2, now, ticks, calls, seg, seg2, jpeg, decoded>>
    /\ UNCHANGED <<readVars, saveVars, lockVars>>

(* the validator applied to its own result *)
Revalidate ==
    /\ pc = "validated"
    /\ meta2' = validate_photo_metadata(meta)
    /\ pc' = "revalidated"
    /\ UNCHANGED <<input, meta, now, ticks, calls, seg, seg2, jpeg, decoded>>
    /\ UNCHANGED <<readVars, saveVars, lockVars>>

(* save_photo_from_bytes: create_exif_segment_structured(&validated_metadata) *)
Encode ==
    /\ pc = "revalidated"
    /\ seg' = create_exif_segment_structured(meta, now)
    /\ pc' = "encoded"
    /\ calls' = Append(calls, now)
    /\ UNCHANGED <<input, meta, meta2, now, ticks, seg2, jpeg, decoded>>
    /\ UNCHANGED <<readVars, saveVars, lockVars>>

(* a second call of the encoder on the same metadata *)
EncodeAgain ==
    /\ pc = "encoded"
    /\ seg2' = create_exif_segment_structured(meta, now)
    /\ pc' = "reencoded"
    /\ calls' = Append(calls, now)
    /\ UNCHANGED <<input, meta, meta2, now, ticks, seg, jpeg, decoded>>
    /\ UNCHANGED <<readVars, saveVars, lockVars>>

(* save_photo_from_bytes: jpeg.set_exif(Some(exif_segment)) on a JPEG that
   has no EXIF segment yet *)
Splice ==
    /\ pc = "reencoded"
    /\ jpeg' = set_exif(jpeg, seg)
    /\ pc' = "spliced"
    /\ UNCHANGED <<input, meta, meta2, now, ticks, calls, seg, seg2, decoded>>
    /\ UNCHANGED <<readVars, saveVars, lockVars>>

(* verify_exif_in_saved_file: read_photo_exif on the written file *)
Read ==
    /\ pc = "spliced"
    /\ decoded' = read_photo_exif(jpeg)
    /\ pc' = "read"
    /\ UNCHANGED <<input, meta, meta2, now, ticks, calls, seg, seg2, jpeg>>
    /\ UNCHANGED <<readVars, saveVars, lockVars>>

Next == Tick \/ Validate \/ Revalidate \/ Encode \/ EncodeAgain \/ Splice \/ Read

Spec == Init /\ [][Next]_vars


-----------------------------------------------------------------------------
(* Properties *)

Validated == pc # "start"
Encoded == pc \in {"encoded", "reencoded", "spliced", "read"}
EncodedTwice == pc \in {"reencoded", "spliced", "read"}
ReadBack == pc = "read"

Within(a, b, tol) == Abs(a - b) <= tol

(* C1: the written JPEG reads back successfully, with latitude and longitude
   within 1e-4 degree of the validated metadata and negative exactly when the
   encoder wrote the S / W reference (value below 0). *)
C1_LatLonRoundTrip ==
    ReadBack =>
        /\ decoded.ok
        /\ Within(decoded.m.latitude, meta.latitude, DegUnit \div 10000)
        /\ Within(decoded.m.longitude, meta.longitude, DegUnit \div 10000)
        /\ (decoded.m.latitude < 0) <=> (meta.latitude < 0)
        /\ (decoded.m.longitude < 0) <=> (meta.longitude < 0)

(* the entries of a directory of the built segment, as written *)
ifd_count(data, ifd_offset) == loadu16(data, ifd_offset, TRUE)
entry_at(data, ifd_offset, i) == ifd_offset + 2 + 12 * (i - 1)
entry_tag(data, ifd_offset, i) == loadu16(data, entry_at(data, ifd_offset, i), TRUE)
entry_slot(data, ifd_offset, i) == loadu32(data, entry_at(data, ifd_offset, i) + 8, TRUE)
gps_ifd_at(data) == 8 + 2 + 12 * ifd_count(data, 8) + 4

(* the IFD0 entries in the order build writes them: the sorted simple
   entries, the GPS-IFD pointer, the UserComment *)
Ifd0Written(b) ==
    sort_by_tag(b.ifd0_entries)
    \o (IF b.gps_entries # <<>> THEN <<ExifEntry(GPS_IFD_POINTER, Short(0))>> ELSE <<>>)
    \o (IF b.user_comment.some
        THEN <<ExifEntry(USER_COMMENT, Undefined(b.user_comment.v))>> ELSE <<>>)
GpsWritten(b) == sort_by_tag(b.gps_entries)

(* the serialized value of an entry, and whether it needs more than 4 bytes *)
ValueBytes(e) ==
    IF e.value.kind \in {"Rational", "Rationals"} THEN rationals_bytes(e.value.r)
    ELSE IF e.value.kind = "Ascii" THEN e.value.s \o <<0>>
    ELSE IF e.value.kind = "Undefined" THEN e.value.s
    ELSE LE16(e.value.v)
OutOfLine(e) ==
    e.value.kind \in {"Rational", "Rationals", "Ascii", "Undefined"}
    /\ Len(ValueBytes(e)) > 4

SlotPointsAtValue(data, ifd_offset, i, e) ==
    LET o == entry_slot(data, ifd_offset, i)
    IN /\ o + Len(ValueBytes(e)) <= Len(data)
       /\ SubSeq(data, o + 1, o + Len(ValueBytes(e))) = ValueBytes(e)

DirectoryIntact(data, ifd_offset, entries) ==
    \A i \in 1..Len(entries) :
        OutOfLine(entries[i]) => SlotPointsAtValue(data, ifd_offset, i, entries[i])

(* C2: every IFD0 and GPS entry of the built segment whose value needs more
   than 4 bytes holds an offset inside the segment, and the bytes there are
   the value written for the entry. *)
C2_OffsetIntegrity ==
    Encoded =>
        /\ DirectoryIntact(seg, 8, Ifd0Written(structured_builder(meta, calls[1])))
        /\ DirectoryIntact(seg, gps_ifd_at(seg), GpsWritten(structured_builder(meta, calls[1])))

StrictlyAscendingTags(data, ifd_offset) ==
    \A i \in 1..(ifd_count(data, ifd_offset) - 1) :
        entry_tag(data, ifd_offset, i) < entry_tag(data, ifd_offset, i + 1)

(* C3: the tags of the IFD0 entries of the built segment, in written order,
   are strictly ascending, and so are the tags of the GPS IFD. *)
C3_AscendingTags ==
    Encoded =>
        /\ StrictlyAscendingTags(seg, 8)
        /\ StrictlyAscendingTags(seg, gps_ifd_at(seg))

(* C4: a longitude outside [-180, 180] is validated into [-180, 180]. *)
C4_LongitudeWrapped ==
    (Validated /\ (input.longitude < -180 * DegUnit \/ input.longitude > 180 * DegUnit)) =>
        (meta.longitude >= -180 * DegUnit /\ meta.longitude <= 180 * DegUnit)

(* C5: the altitude read back is within 0.001 m of a validated altitude in
   [-500, 10000] m, and absent when the metadata has none. *)
C5_AltitudeRoundTrip ==
    ReadBack =>
        /\ decoded.ok
        /\ (meta.altitude.some /\ meta.altitude.v >= -500 * AltUnit
                /\ meta.altitude.v <= 10000 * AltUnit) =>
              (decoded.m.altitude.some
               /\ Within(decoded.m.altitude.v, meta.altitude.v, AltUnit \div 1000))
        /\ ~meta.altitude.some => ~decoded.m.altitude.some

(* C6: location_source and bearing_source read back equal the validated
   metadata's, whatever their contents and lengths. *)
C6_ProvenanceRoundTrip ==
    ReadBack =>
        /\ decoded.ok
        /\ decoded.m.location_source = meta.location_source
        /\ decoded.m.bearing_source = meta.bearing_source

(* C7: the bearing read back is within 0.1 degree of a validated bearing, and
   the orientation read back equals the validated orientation code. *)
C7_BearingOrientationRoundTrip ==
    ReadBack =>
        /\ decoded.ok
        /\ meta.bearing.some =>
              (decoded.m.bearing.some
               /\ Within(decoded.m.bearing.v, meta.bearing.v, BearingUnit \div 10))
        /\ decoded.m.orientation_code = meta.orientation_code

(* C8 as stated: two encoder calls on the same metadata give the same bytes
   for every captured_at, whatever the wall clock at each call. *)
C8_DeterministicAlways == EncodedTwice => seg = seg2

(* C8 amended: two encoder calls on the same metadata give the same bytes
   whenever chrono can represent captured_at; the wall clock is read only
   for a timestamp it cannot. *)
C8_DeterministicInRange ==
    (EncodedTwice /\ from_timestamp_ok(meta.captured_at)) => seg = seg2

(* two calls with a representable timestamp, made on either side of a change
   of the clock that shows in the written date text *)
C8_Witness ==
    /\ pc = "reencoded"
    /\ from_timestamp_ok(meta.captured_at)
    /\ SubSeq(format_datetime(calls[1]), 1, 3) # SubSeq(format_datetime(calls[2]), 1, 3)
    /\ seg = seg2

(* C9: a present bearing is validated into [0, 360) and stays congruent to
   the input modulo 360 (-10 becomes 350, 720 becomes 0); an absent bearing
   stays absent. *)
C9_BearingNormalized ==
    Validated =>
        /\ meta.bearing.some <=> input.bearing.some
        /\ input.bearing.some =>
              /\ meta.bearing.v >= 0
              /\ meta.bearing.v < 360 * BearingUnit
              /\ (meta.bearing.v - input.bearing.v) % (360 * BearingUnit) = 0
        /\ input.bearing = Some(-10 * BearingUnit) => meta.bearing = Some(350 * BearingUnit)
        /\ input.bearing = Some(720 * BearingUnit) => meta.bearing = Some(0)

C9_Witness ==
    /\ pc = "validated"
    /\ input.bearing = Some(-10 * BearingUnit)
    /\ meta.bearing = Some(350 * BearingUnit)

(* C10: validating a validated record changes no field. *)
C10_ValidateIdempotent ==
    pc \in {"revalidated", "encoded", "reencoded", "spliced", "read"} => meta2 = meta

(* a record the first validation changed, validated again *)
C10_Witness ==
    /\ pc = "revalidated"
    /\ input.longitude = Deg5(-55000000)
    /\ meta # input
    /\ meta2 = meta

-----------------------------------------------------------------------------
(* Files from other writers handed to read_photo_exif.  A file is described
   by what its writer put in: the container, how the EXIF payload starts, the
   byte order and, field by field, whether the field is absent, usable or
   unusable. *)

U16(n, le) == IF le THEN LE16(n) ELSE <<(n \div 256) % 256, n % 256>>
U32(n, le) ==
    IF le THEN LE32(n)
    ELSE <<(n \div 16777216) % 256, (n \div 65536) % 256, (n \div 256) % 256, n % 256>>

RawField(tag, typ, cnt, val) == [tag |-> tag, typ |-> typ, cnt |-> cnt, val |-> val]

OutLen(f) == IF Len(f.val) > 4 THEN Len(f.val) ELSE 0

RECURSIVE SumOut(_, _)
SumOut(fields, k) == IF k = 0 THEN 0 ELSE SumOut(fields, k - 1) + OutLen(fields[k])

block_size(fields) == 2 + 12 * Len(fields) + 4 + SumOut(fields, Len(fields))

(* an IFD placed at offset base: the count, the entries, a zero next-IFD
   offset, then the values that need more than 4 bytes *)
ifd_block(fields, base, le) ==
    LET n == Len(fields)
        data_start == base + 2 + 12 * n + 4
    IN U16(n, le)
       \o Concat([i \in 1..n |->
              U16(fields[i].tag, le) \o U16(fields[i].typ, le) \o U32(fields[i].cnt, le)
              \o (IF Len(fields[i].val) <= 4 THEN resize4(fields[i].val)
                  ELSE U32(data_start + SumOut(fields, i - 1), le))])
       \o <<0, 0, 0, 0>>
       \o Concat([i \in 1..n |-> IF Len(fields[i].val) > 4 THEN fields[i].val ELSE <<>>])

FileTime == [day |-> 19675, sod |-> 80000]
NotADate == <<110, 111, 116, 32, 97, 32, 100, 97, 116, 101, 0>>
NotJson == <<104, 101, 108, 108, 111, 32, 119, 111, 114, 108, 100>>
NotUtf8 == <<255, 254, 253, 252>>
XmpStart == <<104, 116, 116, 112, 58, 47, 47, 110, 115>>

file_orientation(r, le) ==
    IF r.orientation = "short" THEN <<RawField(ORIENTATION, 3, 1, U16(6, le))>>
    ELSE IF r.orientation = "long" THEN <<RawField(ORIENTATION, 4, 1, U32(6, le))>>
    ELSE <<>>

file_datetime(r) ==
    IF r.datetime = "valid"
    THEN <<RawField(DATE_TIME, 2, 20, format_datetime(FileTime) \o <<0>>)>>
    ELSE IF r.datetime = "garbage" THEN <<RawField(DATE_TIME, 2, Len(NotADate), NotADate)>>
    ELSE IF r.datetime = "undefined"
    THEN <<RawField(DATE_TIME, 7, 20, format_datetime(FileTime) \o <<0>>)>>
    ELSE <<>>

file_comment_bytes(r) ==
    IF r.comment \in {"valid", "ifd0"} THEN CharacterCode \o provenance_to_json(Manual, Sensor)
    ELSE IF r.comment = "nonjson" THEN CharacterCode \o NotJson
    ELSE IF r.comment = "nonutf8" THEN CharacterCode \o NotUtf8
    ELSE CharacterCode

comment_field(bytes) == <<RawField(USER_COMMENT, 7, Len(bytes), bytes)>>

file_comment(r) == comment_field(file_comment_bytes(r))

file_rationals(vals, le) ==
    Concat([i \in 1..Len(vals) |-> U32(vals[i][1], le) \o U32(vals[i][2], le)])

(* 33 deg 52' 7.68" S, 2 deg 21' 7.92" E, 35 m, 274.5 deg; without the
   references and with a signed altitude in the "noref" files *)
file_gps(r, le) ==
    LET lat == RawField(GPS_LATITUDE, 5, 3,
                        file_rationals(<<<<33, 1>>, <<52, 1>>, <<768, 100>>>>, le))
        lon == RawField(GPS_LONGITUDE, 5, 3,
                        file_rationals(<<<<2, 1>>, <<21, 1>>, <<792, 100>>>>, le))
        dir == RawField(GPS_IMG_DIRECTION, 5, 1, file_rationals(<<<<27450, 100>>>>, le))
    IN IF r.gps = "full"
       THEN <<RawField(GPS_LATITUDE_REF, 2, 2, <<83, 0>>), lat,
              RawField(GPS_LONGITUDE_REF, 2, 2, <<69, 0>>), lon,
              RawField(GPS_ALTITUDE, 5, 1, file_rationals(<<<<35000, 1000>>>>, le)), dir>>
       ELSE IF r.gps = "noref"
       THEN <<lat, lon,
              RawField(GPS_ALTITUDE, 10, 1, file_rationals(<<<<35000, 1000>>>>, le)), dir>>
       ELSE <<>>

(* the TIFF block: IFD0 at 8, then the Exif IFD, then the GPS IFD *)
tiff_blocks(le, ifd0, exif, gps, exif_offset, gps_offset) ==
    (IF le THEN <<73, 73>> ELSE <<77, 77>>) \o U16(42, le) \o U32(8, le)
    \o ifd_block(ifd0
                 \o (IF exif # <<>>
                     THEN <<RawField(EXIF_IFD_POINTER, 4, 1, U32(exif_offset, le))>>
                     ELSE <<>>)
                 \o (IF gps # <<>>
                     THEN <<RawField(GPS_IFD_POINTER, 4, 1, U32(gps_offset, le))>>
                     ELSE <<>>),
                 8, le)
    \o (IF exif # <<>> THEN ifd_block(exif, exif_offset, le) ELSE <<>>)
    \o (IF gps # <<>> THEN ifd_block(gps, gps_offset, le) ELSE <<>>)

(* the Exif IFD follows IFD0 and its values, the GPS IFD follows the Exif IFD *)
tiff_placed(le, ifd0, exif, gps, exif_offset) ==
    tiff_blocks(le, ifd0, exif, gps, exif_offset,
                exif_offset + (IF exif # <<>> THEN block_size(exif) ELSE 0))

tiff_of(le, ifd0, exif, gps) ==
    tiff_placed(le, ifd0, exif, gps,
                8 + 2
                + 12 * (Len(ifd0) + (IF exif # <<>> THEN 1 ELSE 0)
                        + (IF gps # <<>> THEN 1 ELSE 0))
                + 4 + SumOut(ifd0, Len(ifd0)))

file_tiff(r) ==
    tiff_of(r.order = "II",
            file_orientation(r, r.order = "II") \o file_datetime(r)
                \o (IF r.comment = "ifd0" THEN file_comment(r) ELSE <<>>),
            IF r.comment \in {"valid", "nonjson", "nonutf8", "header"}
            THEN file_comment(r) ELSE <<>>,
            file_gps(r, r.order = "II"))

(* what Jpeg::exif() returns for the file: the APP1 contents behind the
   "Exif\0\0" that marks the segment *)
payload_of(start, tiff) ==
    IF start = "tiff" THEN tiff
    ELSE IF start = "prefixed" THEN ExifPrefix \o tiff
    ELSE IF start = "prefixed_junk" THEN ExifPrefix \o <<1, 2, 3>>
    ELSE IF start = "order_only" THEN SubSeq(tiff, 1, 2)
    ELSE IF start = "one_byte" THEN SubSeq(tiff, 1, 1)
    ELSE IF start = "mixed_order" THEN <<73, 77>> \o SubSeq(tiff, 3, Len(tiff))
    ELSE IF start = "partial_prefix" THEN SubSeq(ExifPrefix, 1, 5) \o tiff
    ELSE IF start = "junk" THEN <<0, 42>> \o tiff
    ELSE <<>>

file_payload(r) == payload_of(r.start, file_tiff(r))

jpeg_of(container, payload) ==
    IF container = "exif" THEN set_exif(jpeg_without_exif, payload)
    ELSE IF container = "other_app1" THEN [app1 |-> Some(XmpStart \o payload)]
    ELSE jpeg_without_exif

file_jpeg(r) == jpeg_of(r.container, file_payload(r))

Starts == {"tiff", "prefixed", "prefixed_junk", "order_only", "one_byte", "mixed_order",
           "partial_prefix", "junk", "empty"}

PlainFile ==
    [container |-> "exif", start |-> "tiff", order |-> "II", orientation |-> "short",
     datetime |-> "valid", gps |-> "full", comment |-> "valid"]

Files ==
    {[PlainFile EXCEPT !.start = s, !.order = e, !.orientation = o, !.datetime = d,
                       !.gps = g, !.comment = c] :
        s \in {"tiff", "prefixed"}, e \in {"II", "MM"},
        o \in {"absent", "short", "long"},
        d \in {"absent", "valid", "garbage", "undefined"},
        g \in {"absent", "full", "noref"},
        c \in {"absent", "header", "nonutf8", "nonjson", "valid", "ifd0"}}
    \cup {[PlainFile EXCEPT !.container = k, !.start = s, !.order = e] :
        k \in {"none", "other_app1", "exif"}, s \in Starts, e \in {"II", "MM"}}

ReadInit ==
    /\ pc = "closed"
    /\ input = Base
    /\ meta = DefaultMetadata
    /\ meta2 = DefaultMetadata
    /\ now = ClockStart
    /\ ticks = 0
    /\ calls = <<>>
    /\ seg = <<>>
    /\ seg2 = <<>>
    /\ jpeg = jpeg_without_exif
    /\ decoded = NoResult
    /\ IdleRead
    /\ IdleSave
    /\ IdleLock

(* a file of another writer is picked *)
OpenFile ==
    /\ pc = "closed"
    /\ \E r \in Files :
          /\ file' = r
          /\ jpeg' = file_jpeg(r)
    /\ pc' = "opened"
    /\ UNCHANGED <<input, meta, meta2, now, ticks, calls, seg, seg2, decoded>>
    /\ UNCHANGED <<saveVars, lockVars>>

(* read_photo_exif on that file *)
ReadFile ==
    /\ pc = "opened"
    /\ decoded' = read_photo_exif(jpeg)
    /\ pc' = "fileread"
    /\ UNCHANGED <<input, meta, meta2, now, ticks, calls, seg, seg2, jpeg>>
    /\ UNCHANGED <<readVars, saveVars, lockVars>>

ReadNext == OpenFile \/ ReadFile

ReadSpec == ReadInit /\ [][ReadNext]_vars

FileRead == pc = "fileread"

(* C14: without an EXIF segment the read fails with "No EXIF data found"; a
   segment that starts with "Exif\0\0" is read as what follows those 6 bytes,
   a segment that starts with "II" or "MM" is read as it is, and every other
   segment start, shorter than 2 bytes included, fails with "Invalid EXIF
   format". *)
C14_ContainerErrors ==
    FileRead =>
        LET payload == file_payload(file)
            has_prefix == Len(payload) >= 6 /\ SubSeq(payload, 1, 6) = ExifPrefix
            has_order == Len(payload) >= 2
                         /\ SubSeq(payload, 1, 2) \in {<<73, 73>>, <<77, 77>>}
        IN /\ file.container # "exif" =>
                 (~decoded.ok /\ decoded.err = "No EXIF data found")
           /\ (file.container = "exif" /\ ~has_prefix /\ ~has_order) =>
                 (~decoded.ok /\ decoded.err = "Invalid EXIF format")
           /\ (file.container = "exif" /\ (has_prefix \/ has_order)) =>
                 /\ decoded.err \notin {"No EXIF data found", "Invalid EXIF format"}
                 /\ (file.start \in {"tiff", "prefixed"} => decoded.ok)
           /\ (file.container = "exif" /\ file.start = "prefixed") =>
                 decoded = read_photo_exif(
                               set_exif(jpeg_without_exif, file_tiff(file)))

(* a big-endian block behind a second "Exif\0\0" has been read *)
C14_Witness ==
    /\ FileRead
    /\ file.container = "exif"
    /\ file.start = "prefixed"
    /\ file.order = "MM"
    /\ decoded.ok
    /\ decoded.m.orientation_code = Some(6)

(* C15: a file whose EXIF container parses is read with Ok; a field that is
   missing or unusable takes its default (orientation None, altitude None,
   bearing None, captured_at 0, latitude and longitude 0.0, both sources
   "unknown"), the usable fields are read. *)
C15_DefaultsForMissingFields ==
    (FileRead /\ file.container = "exif" /\ file.start \in {"tiff", "prefixed"}) =>
        /\ decoded.ok
        /\ decoded.m.orientation_code =
              (IF file.orientation = "short" THEN Some(6) ELSE None)
        /\ decoded.m.captured_at =
              (IF file.datetime = "valid" THEN FileTime ELSE [day |-> 0, sod |-> 0])
        /\ decoded.m.latitude = (IF file.gps = "full" THEN Deg5(-3386880) ELSE 0)
        /\ decoded.m.longitude = (IF file.gps = "full" THEN Deg5(235220) ELSE 0)
        /\ decoded.m.altitude = (IF file.gps = "full" THEN Some(35 * AltUnit) ELSE None)
        /\ decoded.m.bearing =
              (IF file.gps = "absent" THEN None ELSE Some(274500))
        /\ decoded.m.location_source = (IF file.comment = "valid" THEN Manual ELSE Unknown)
        /\ decoded.m.bearing_source = (IF file.comment = "valid" THEN Sensor ELSE Unknown)
        /\ decoded.m.accuracy = 0

(* a file with an unusable orientation, an unparsable DateTime, coordinates
   without references and a UserComment that is not JSON, read with Ok *)
C15_Witness ==
    /\ FileRead
    /\ file.container = "exif"
    /\ file.start = "tiff"
    /\ file.orientation = "long"
    /\ file.datetime = "garbage"
    /\ file.gps = "noref"
    /\ file.comment = "nonjson"
    /\ decoded.ok
    /\ decoded.m.bearing = Some(274500)
    /\ decoded.m.location_source = Unknown

-----------------------------------------------------------------------------
(* device_photos.rs: the photo commands.  A photo arrives in chunks under
   its id and is saved by save_photo_with_metadata. *)

MaxSaves == 2
MaxStores == 3

PhotoIds == {"a", "b"}

Soi == <<255, 216>>
Eoi == <<255, 217>>
StartChunk == Soi \o <<255, 192, 0, 2>>
EndChunk == Eoi
Chunks == {StartChunk, EndChunk}

(* a JPEG stream whose segments run from the SOI exactly to the EOI *)
RECURSIVE segments_end_at_eoi(_, _)
segments_end_at_eoi(bytes, i) ==
    IF i + 1 > Len(bytes) THEN FALSE
    ELSE IF bytes[i] # 255 THEN FALSE
    ELSE IF bytes[i + 1] = 217 THEN i + 1 = Len(bytes)
    ELSE IF i + 3 > Len(bytes) THEN FALSE
    ELSE LET size == bytes[i + 2] * 256 + bytes[i + 3]
         IN size >= 2 /\ segments_end_at_eoi(bytes, i + 2 + size)

well_formed_jpeg(bytes) == starts_with(bytes, Soi) /\ segments_end_at_eoi(bytes, 3)

JpegAcceptsAnything(bytes) == {TRUE}

(* img_parts Jpeg::from_bytes: Err(WrongSignature) without the SOI, Ok for a
   well-formed stream; what it does with a stream that is cut short or holds
   stray bytes is left open *)
jpeg_from_bytes(bytes) ==
    IF ~starts_with(bytes, Soi) THEN {FALSE}
    ELSE IF well_formed_jpeg(bytes) THEN {TRUE}
    ELSE {TRUE, FALSE}

(* image::load_from_memory: fails on bytes of no known format, decodes a
   well-formed stream, left open otherwise *)
load_from_memory(bytes) ==
    IF ~starts_with(bytes, Soi) THEN {FALSE}
    ELSE IF well_formed_jpeg(bytes) THEN {TRUE}
    ELSE {TRUE, FALSE}

(* save_to_pictures_directory: direct file I/O, else the MediaStore; a
   direct write can leave the file behind and still fail on the permissions *)
StorageOutcomes ==
    {[ok |-> TRUE, written |-> TRUE], [ok |-> FALSE, written |-> FALSE],
     [ok |-> FALSE, written |-> TRUE]}

(* add_photo_to_database: accepted, refused (success = false) or Err *)
DatabaseOutcomes == {"ok", "refused", "error"}

SaveInit ==
    /\ pc = "commands"
    /\ input = Base
    /\ meta = DefaultMetadata
    /\ meta2 = DefaultMetadata
    /\ now = ClockStart
    /\ ticks = 0
    /\ calls = <<>>
    /\ seg = <<>>
    /\ seg2 = <<>>
    /\ jpeg = jpeg_without_exif
    /\ decoded = NoResult
    /\ IdleRead
    /\ chunks = [id \in PhotoIds |-> None]
    /\ storage = {}
    /\ database = {}
    /\ uploads = 0
    /\ stored = [NoStore EXCEPT !.log = [id \in PhotoIds |-> <<>>]]
    /\ saved = <<>>
    /\ IdleLock

LogEntry(op, first, chunk, ok) ==
    [op |-> op, first |-> first, chunk |-> chunk, ok |-> ok]

StoreCall(id, chunk, first, ok) ==
    [count |-> stored.count + 1,
     log |-> [stored.log EXCEPT ![id] = Append(@, LogEntry("store", first, chunk, ok))]]

StoreChunkAppendsToAll(held, photo_id, chunk, is_first_chunk) ==
    IF is_first_chunk
    THEN [ok |-> TRUE, chunks |-> [held EXCEPT ![photo_id] = Some(chunk)]]
    ELSE IF held[photo_id].some
    THEN [ok |-> TRUE,
          chunks |-> [id \in DOMAIN held |->
                         IF held[id].some THEN Some(held[id].v \o chunk) ELSE held[id]]]
    ELSE [ok |-> FALSE, chunks |-> held]

StoreChunkInsertsOnAppend(held, photo_id, chunk, is_first_chunk) ==
    IF is_first_chunk \/ ~held[photo_id].some
    THEN [ok |-> TRUE, chunks |-> [held EXCEPT ![photo_id] = Some(chunk)]]
    ELSE [ok |-> TRUE, chunks |-> [held EXCEPT ![photo_id] = Some(@.v \o chunk)]]

(* store_photo_chunk on the map `held`: the result and the map afterwards *)
store_photo_chunk(held, photo_id, chunk, is_first_chunk) ==
    IF is_first_chunk
    THEN [ok |-> TRUE, chunks |-> [held EXCEPT ![photo_id] = Some(chunk)]]
    ELSE IF held[photo_id].some
    THEN [ok |-> TRUE, chunks |-> [held EXCEPT ![photo_id] = Some(@.v \o chunk)]]
    ELSE [ok |-> FALSE, chunks |-> held]

(* the command, one step under the PHOTO_CHUNKS lock *)
StoreChunk ==
    \E id \in PhotoIds, chunk \in Chunks, is_first_chunk \in BOOLEAN :
        /\ stored.count < MaxStores
        /\ chunks' = store_photo_chunk(chunks, id, chunk, is_first_chunk).chunks
        /\ stored' = StoreCall(id, chunk, is_first_chunk,
                               store_photo_chunk(chunks, id, chunk, is_first_chunk).ok)
        /\ UNCHANGED <<storage, database, uploads, saved>>
        /\ UNCHANGED <<pipeVars, readVars, lockVars>>

SaveCall(id, state, err, bytes) ==
    [id |-> id, state |-> state, err |-> err, bytes |-> bytes]

ChunksGetWithoutRemove(held, photo_id) ==
    [image_data |-> held[photo_id], chunks |-> held]

(* chunks.remove(&photo_id): the bytes held for the id, if any, and the map
   without the id *)
chunks_remove(held, photo_id) ==
    [image_data |-> held[photo_id], chunks |-> [held EXCEPT ![photo_id] = None]]

(* save_photo_with_metadata, step 1: chunks.remove(&photo_id) under the lock *)
SaveTake ==
    \E id \in PhotoIds :
        /\ Len(saved) < MaxSaves
        /\ chunks' = chunks_remove(chunks, id).chunks
        /\ saved' = Append(saved,
                       IF chunks_remove(chunks, id).image_data.some
                       THEN SaveCall(id, "running", "", chunks_remove(chunks, id).image_data.v)
                       ELSE SaveCall(id, "err", "Photo data not found", <<>>))
        /\ stored' = [stored EXCEPT
                         !.log[id] = Append(@, LogEntry("take", FALSE, <<>>,
                                                 chunks_remove(chunks, id).image_data.some))]
        /\ UNCHANGED <<storage, database, uploads>>
        /\ UNCHANGED <<pipeVars, readVars, lockVars>>

(* save_photo_from_bytes after its steps went as given: whether a file is
   left behind, whether the database record was added, the Err message *)
save_result(parsed, loaded, st, db) ==
    LET file_ok == parsed /\ loaded /\ st.ok
    IN [file_saved |-> parsed /\ loaded /\ st.written,
        recorded |-> file_ok /\ db = "ok",
        err |-> IF ~parsed THEN "Failed to parse JPEG"
                ELSE IF ~loaded THEN "Failed to load image from memory"
                ELSE IF ~st.ok THEN "Failed to save photo"
                ELSE IF db = "refused" THEN "Failed to save photo to Android database"
                ELSE IF db = "error" THEN "Error saving photo to Android database"
                ELSE ""]

(* what a save of these bytes can come to *)
SaveOutcomes(bytes) ==
    {save_result(parsed, loaded, st, db) :
        parsed \in jpeg_from_bytes(bytes), loaded \in load_from_memory(bytes),
        st \in StorageOutcomes, db \in DatabaseOutcomes}

(* save_photo_from_bytes on the bytes taken: parse, load, write the file,
   add the database record, trigger the upload worker *)
SaveProcess ==
    \E i \in 1..Len(saved) :
        /\ saved[i].state = "running"
        /\ \E o \in SaveOutcomes(saved[i].bytes) :
              /\ storage' = IF o.file_saved THEN storage \cup {i} ELSE storage
              /\ database' = IF o.recorded THEN database \cup {i} ELSE database
              /\ uploads' = IF o.recorded THEN uploads + 1 ELSE uploads
              /\ saved' = [saved EXCEPT ![i].state = IF o.recorded THEN "ok" ELSE "err",
                                        ![i].err = o.err]
        /\ UNCHANGED <<chunks, stored>>
        /\ UNCHANGED <<pipeVars, readVars, lockVars>>

SaveNext == StoreChunk \/ SaveTake \/ SaveProcess

SaveSpec == SaveInit /\ [][SaveNext]_vars

(* C16: a save whose bytes do not parse as a JPEG returns Err, and that call
   writes no file, adds no database record and does not trigger the upload
   worker. *)
C16_NoPartialOutput ==
    /\ \A i \in 1..Len(saved) :
          /\ (saved[i].state \in {"ok", "err"} /\ saved[i].err # "Photo data not found"
              /\ ~starts_with(saved[i].bytes, Soi))
                => (saved[i].state = "err" /\ saved[i].err = "Failed to parse JPEG")
          /\ saved[i].err = "Failed to parse JPEG"
                => (saved[i].state = "err" /\ i \notin storage /\ i \notin database)
    /\ uploads = Cardinality({i \in 1..Len(saved) : saved[i].state = "ok"})
    /\ database = {i \in 1..Len(saved) : saved[i].state = "ok"}

(* a save of bytes without the SOI has failed after an earlier save went
   through: one file, one record, one trigger *)
C16_Witness ==
    /\ Len(saved) = 2
    /\ saved[1].state = "ok"
    /\ saved[2].err = "Failed to parse JPEG"
    /\ saved[2].bytes = EndChunk
    /\ storage = {1}
    /\ database = {1}
    /\ uploads = 1

-----------------------------------------------------------------------------
(* commands.rs: the permission lock.  Every command holds PERMISSION_MUTEX
   from its first statement to its return, so a call is one step. *)

MaxLockCalls == 3

Requesters == {"camera", "location", "notification"}

AcquireReentrant(guard, requester) ==
    IF ~guard.some \/ guard.v = requester
    THEN [guard |-> Some(requester), result |-> TRUE]
    ELSE [guard |-> guard, result |-> FALSE]

acquire_permission_lock(guard, requester) ==
    IF ~guard.some
    THEN [guard |-> Some(requester), result |-> TRUE]
    ELSE [guard |-> guard, result |-> FALSE]

ReleaseByAnyone(guard, requester) ==
    IF guard.some
    THEN [guard |-> None, result |-> "Ok"]
    ELSE [guard |-> guard, result |-> "No lock held"]

release_permission_lock(guard, requester) ==
    IF guard.some /\ guard.v = requester
    THEN [guard |-> None, result |-> "Ok"]
    ELSE IF guard.some
    THEN [guard |-> guard, result |-> "Lock held by another requester"]
    ELSE [guard |-> guard, result |-> "No lock held"]

get_permission_lock_holder(guard) == [guard |-> guard, result |-> guard]

LockCall(op, requester, return) ==
    [op |-> op, requester |-> requester, before |-> holder, after |-> return.guard,
     result |-> return.result]

LockInit ==
    /\ pc = "commands"
    /\ input = Base
    /\ meta = DefaultMetadata
    /\ meta2 = DefaultMetadata
    /\ now = ClockStart
    /\ ticks = 0
    /\ calls = <<>>
    /\ seg = <<>>
    /\ seg2 = <<>>
    /\ jpeg = jpeg_without_exif
    /\ decoded = NoResult
    /\ IdleRead
    /\ IdleSave
    /\ IdleLock

Acquire ==
    \E r \in Requesters :
        /\ Len(lockLog) < MaxLockCalls
        /\ holder' = acquire_permission_lock(holder, r).guard
        /\ lockLog' = Append(lockLog, LockCall("acquire", r, acquire_permission_lock(holder, r)))
        /\ UNCHANGED <<pipeVars, readVars, saveVars>>

Release ==
    \E r \in Requesters :
        /\ Len(lockLog) < MaxLockCalls
        /\ holder' = release_permission_lock(holder, r).guard
        /\ lockLog' = Append(lockLog, LockCall("release", r, release_permission_lock(holder, r)))
        /\ UNCHANGED <<pipeVars, readVars, saveVars>>

GetHolder ==
    /\ Len(lockLog) < MaxLockCalls
    /\ holder' = get_permission_lock_holder(holder).guard
    /\ lockLog' = Append(lockLog, LockCall("get", "", get_permission_lock_holder(holder)))
    /\ UNCHANGED <<pipeVars, readVars, saveVars>>

LockNext == Acquire \/ Release \/ GetHolder

LockSpec == LockInit /\ [][LockNext]_vars

(* C17: the lock has at most one holder: acquire_permission_lock(r) returns
   true and makes r the holder exactly when nobody held the lock, and
   otherwise returns false and leaves the holder as it was, also when r
   itself is the holder. *)
C17_SingleHolder ==
    /\ holder = None \/ (holder.some /\ holder.v \in Requesters)
    /\ \A i \in 1..Len(lockLog) :
          lockLog[i].op = "acquire" =>
              /\ lockLog[i].result = TRUE <=> ~lockLog[i].before.some
              /\ lockLog[i].result = TRUE => lockLog[i].after = Some(lockLog[i].requester)
              /\ lockLog[i].result = FALSE => lockLog[i].after = lockLog[i].before
    /\ \A i \in 1..Len(lockLog) :
          /\ lockLog[i].before = (IF i = 1 THEN None ELSE lockLog[i - 1].after)
          /\ i = Len(lockLog) => holder = lockLog[i].after

(* the holder asked for the lock again and was refused *)
C17_Witness ==
    /\ Len(lockLog) = 2
    /\ lockLog[1].op = "acquire"
    /\ lockLog[1].requester = "camera"
    /\ lockLog[1].result = TRUE
    /\ lockLog[2].op = "acquire"
    /\ lockLog[2].requester = "camera"
    /\ lockLog[2].before = Some("camera")
    /\ lockLog[2].result = FALSE
    /\ holder = Some("camera")

(* C11: the validated latitude lies in [-90, 90]: an input below -90 becomes
   -90, an input above 90 becomes 90, an input in range is unchanged. *)
C11_LatitudeClamped ==
    Validated =>
        /\ meta.latitude >= -90 * DegUnit
        /\ meta.latitude <= 90 * DegUnit
        /\ input.latitude < -90 * DegUnit => meta.latitude = -90 * DegUnit
        /\ input.latitude > 90 * DegUnit => meta.latitude = 90 * DegUnit
        /\ (input.latitude >= -90 * DegUnit /\ input.latitude <= 90 * DegUnit)
              => meta.latitude = input.latitude

(* a latitude below -90 that validation has clamped *)
C11_Witness ==
    /\ pc = "validated"
    /\ input.latitude < -90 * DegUnit
    /\ meta.latitude = -90 * DegUnit

(* C12: validate_orientation_code keeps 1, 3, 6, 8 and gives 1 for every
   other code and for None, so a validated record carries Some(v) with v in
   {1, 3, 6, 8}. *)
C12_OrientationNormalized ==
    Validated =>
        /\ meta.orientation_code.some
        /\ meta.orientation_code.v \in {1, 3, 6, 8}
        /\ meta.orientation_code.v = validate_orientation_code(input.orientation_code)
        /\ (input.orientation_code.some /\ input.orientation_code.v \in {1, 3, 6, 8})
              => meta.orientation_code.v = input.orientation_code.v
        /\ ~(input.orientation_code.some /\ input.orientation_code.v \in {1, 3, 6, 8})
              => meta.orientation_code.v = 1

(* an orientation code outside {1, 3, 6, 8} that validation has replaced by 1 *)
C12_Witness ==
    /\ pc = "validated"
    /\ input.orientation_code = Some(2)
    /\ meta.orientation_code = Some(1)

(* photo_exif.rs: calculate_gps_entry_count *)
calculate_gps_entry_count(metadata) ==
    5 + (IF metadata.altitude.some THEN 2 ELSE 0)
      + (IF metadata.bearing.some THEN 4 ELSE 0)

(* the tags of the entries of the IFD at ifd_offset *)
TagsOf(data, ifd_offset) ==
    {entry_tag(data, ifd_offset, i) : i \in 1..ifd_count(data, ifd_offset)}

(* C13: IFD0 of the segment built from a validated record has the 5 entries
   Orientation, DateTime, DateTimeOriginal, GPS-IFD pointer and UserComment;
   the GPS IFD has version, latitude ref/value and longitude ref/value, the
   altitude pair iff altitude is Some and the four bearing entries iff bearing
   is Some, and its count field is 5 + 2*[altitude] + 4*[bearing]. *)
C13_EntriesPresent ==
    Encoded =>
        /\ ifd_count(seg, 8) = 5
        /\ TagsOf(seg, 8) = {ORIENTATION, DATE_TIME, DATE_TIME_ORIGINAL,
                             GPS_IFD_POINTER, USER_COMMENT}
        /\ ifd_count(seg, gps_ifd_at(seg)) = calculate_gps_entry_count(meta)
        /\ TagsOf(seg, gps_ifd_at(seg)) =
              {GPS_VERSION_ID, GPS_LATITUDE_REF, GPS_LATITUDE,
               GPS_LONGITUDE_REF, GPS_LONGITUDE}
              \cup (IF meta.altitude.some THEN {GPS_ALTITUDE_REF, GPS_ALTITUDE} ELSE {})
              \cup (IF meta.bearing.some
                    THEN {GPS_IMG_DIRECTION_REF, GPS_IMG_DIRECTION,
                          GPS_DEST_BEARING_REF, GPS_DEST_BEARING}
                    ELSE {})

(* a segment built with altitude and bearing present: 11 GPS entries *)
C13_Witness ==
    /\ pc = "encoded"
    /\ meta.altitude.some
    /\ meta.bearing.some
    /\ ifd_count(seg, gps_ifd_at(seg)) = 11

entry_type(data, ifd_offset, i) == loadu16(data, entry_at(data, ifd_offset, i) + 2, TRUE)
entry_count(data, ifd_offset, i) == loadu32(data, entry_at(data, ifd_offset, i) + 4, TRUE)

(* the entry of IFD0 with this tag is ASCII with count 20 and its value slot
   leads to the 19 characters of captured_at and a NUL *)
DateTimeStored(data, tag, timestamp) ==
    \E i \in 1..ifd_count(data, 8) :
        /\ entry_tag(data, 8, i) = tag
        /\ entry_type(data, 8, i) = 2
        /\ entry_count(data, 8, i) = 20
        /\ LET o == entry_slot(data, 8, i)
           IN /\ o + 20 <= Len(data)
              /\ SubSeq(data, o + 1, o + 20) = format_datetime(timestamp) \o <<0>>
              /\ parse_datetime(SubSeq(data, o + 1, o + 19)) = Some(timestamp)

(* C18: for a captured_at chrono can represent, the DateTime and
   DateTimeOriginal entries are ASCII with count 20 and store the complete
   "YYYY:MM:DD HH:MM:SS" of captured_at with its NUL, which parses back to
   captured_at. *)
C18_DateTimeStored ==
    (Encoded /\ from_timestamp_ok(meta.captured_at)) =>
        /\ DateTimeStored(seg, DATE_TIME, meta.captured_at)
        /\ DateTimeStored(seg, DATE_TIME_ORIGINAL, meta.captured_at)

(* the builder the first create_exif_segment_structured call has filled *)
Built == structured_builder(meta, calls[1])

(* the bytes build has written when it reaches the GPS IFD: the header, the
   IFD0 count, the simple entries, the GPS pointer and UserComment entries,
   the next-IFD offset *)
Ifd0Length(b) ==
    8 + 2
    + Len(Concat([i \in 1..Len(b.ifd0_entries) |-> write_ifd_entry(b.ifd0_entries[i])]))
    + (IF b.gps_entries # <<>> THEN 12 ELSE 0)
    + (IF b.user_comment.some THEN 12 ELSE 0)
    + 4

(* C19: the IFD0 count n is the number of simple entries, plus 1 for the GPS
   pointer, plus 1 for the comment; the GPS pointer holds 8 + 2 + 12*n + 4,
   which is where build has arrived when it writes the GPS IFD's count, so
   the padding loop adds nothing. *)
C19_Ifd0CountAndGpsOffset ==
    Encoded =>
        LET n == ifd_count(seg, 8)
            gps_ifd_offset == 8 + 2 + 12 * n + 4
        IN /\ n = Len(Built.ifd0_entries)
                  + (IF Built.gps_entries # <<>> THEN 1 ELSE 0)
                  + (IF Built.user_comment.some THEN 1 ELSE 0)
           /\ \E i \in 1..n :
                 /\ entry_tag(seg, 8, i) = GPS_IFD_POINTER
                 /\ entry_slot(seg, 8, i) = gps_ifd_offset
           /\ Ifd0Length(Built) = gps_ifd_offset
           /\ pad_to(SubSeq(seg, 1, Ifd0Length(Built)), gps_ifd_offset)
                 = SubSeq(seg, 1, Ifd0Length(Built))
           /\ ifd_count(seg, gps_ifd_offset) = Len(Built.gps_entries)
           /\ \A k \in 1..Len(Built.gps_entries) :
                 entry_tag(seg, gps_ifd_offset, k) = GpsWritten(Built)[k].tag

(* a segment with orientation, both timestamps, GPS pointer and comment:
   n = 5 and the GPS IFD with its 11 entries starts at byte 74 *)
C19_Witness ==
    /\ pc = "encoded"
    /\ ifd_count(seg, 8) = 5
    /\ gps_ifd_at(seg) = 74
    /\ Ifd0Length(Built) = 74
    /\ ifd_count(seg, 74) = 11

(* the bytes the out-of-line values of the first k entries occupy *)
RECURSIVE OutOfLineBefore(_, _)
OutOfLineBefore(entries, k) ==
    IF k = 0 THEN 0
    ELSE OutOfLineBefore(entries, k - 1)
         + (IF OutOfLine(entries[k]) THEN Len(ValueBytes(entries[k])) ELSE 0)

(* C20: in the GPS IFD each out-of-line value's recorded offset is the data
   area's start (GPS IFD offset + 2 + 12*entries + 4) plus the sizes of the
   out-of-line values of the entries with smaller tags; the values are
   written in that ascending-tag order, so each value lies at its recorded
   offset, and calculate_gps_data_size is the number of data bytes written. *)
C20_GpsDataLayout ==
    Encoded =>
        LET entries == GpsWritten(Built)
            g == gps_ifd_at(seg)
            data_start == g + 2 + 12 * Len(entries) + 4
            size == calculate_gps_data_size(entries)
        IN /\ ifd_count(seg, g) = Len(entries)
           /\ \A k \in 1..Len(entries) :
                 /\ entry_tag(seg, g, k) = entries[k].tag
                 /\ \A j \in 1..(k - 1) : entries[j].tag < entries[k].tag
                 /\ OutOfLine(entries[k]) =>
                       /\ entry_slot(seg, g, k)
                             = data_start + OutOfLineBefore(entries, k - 1)
                       /\ SlotPointsAtValue(seg, g, k, entries[k])
           /\ size = OutOfLineBefore(entries, Len(entries))
           /\ size = Len(write_gps_data_values(entries))
           /\ data_start + size <= Len(seg)
           /\ SubSeq(seg, data_start + 1, data_start + size)
                 = write_gps_data_values(entries)

(* a segment whose GPS IFD holds coordinates, altitude and bearings: the
   latitude triple is first in the data area, the longitude triple 24 bytes
   later, and the area holds more than the two triples *)
C20_Witness ==
    /\ pc = "encoded"
    /\ ifd_count(seg, 74) = 11
    /\ \E k \in 1..11 :
          /\ entry_tag(seg, 74, k) = GPS_LATITUDE
          /\ entry_slot(seg, 74, k) = 74 + 2 + 12 * 11 + 4
    /\ \E k \in 1..11 :
          /\ entry_tag(seg, 74, k) = GPS_LONGITUDE
          /\ entry_slot(seg, 74, k) = 74 + 2 + 12 * 11 + 4 + 24
    /\ calculate_gps_data_size(GpsWritten(Built)) > 48

(* C21: a UserComment longer than 4 bytes has in its IFD0 entry the offset
   GPS IFD offset + (2 + 12*entries + 4) + GPS data size; the comment bytes
   start at that offset and the segment ends at offset + comment length,
   with and without altitude and bearing. *)
C21_CommentLayout ==
    Encoded =>
        LET comment == Built.user_comment
            entries == GpsWritten(Built)
            g == gps_ifd_at(seg)
            offset == g + (2 + 12 * Len(entries) + 4)
                      + OutOfLineBefore(entries, Len(entries))
        IN (comment.some /\ Len(comment.v) > 4) =>
              /\ \E i \in 1..ifd_count(seg, 8) :
                    /\ entry_tag(seg, 8, i) = USER_COMMENT
                    /\ entry_type(seg, 8, i) = 7
                    /\ entry_count(seg, 8, i) = Len(comment.v)
                    /\ entry_slot(seg, 8, i) = offset
              /\ offset + Len(comment.v) = Len(seg)
              /\ SubSeq(seg, offset + 1, offset + Len(comment.v)) = comment.v

(* a segment with altitude and without bearing: 7 GPS entries from byte 74,
   four out-of-line values, and a comment behind them that ends the segment *)
C21_Witness ==
    /\ pc = "encoded"
    /\ meta.altitude.some
    /\ ~meta.bearing.some
    /\ ifd_count(seg, 74) = 7
    /\ Built.user_comment.some
    /\ Len(Built.user_comment.v) > 4
    /\ \E i \in 1..ifd_count(seg, 8) :
          /\ entry_tag(seg, 8, i) = USER_COMMENT
          /\ entry_slot(seg, 8, i) = 74 + 2 + 12 * 7 + 4 + 56
    /\ Len(seg) = 74 + 2 + 12 * 7 + 4 + 56 + Len(Built.user_comment.v)

(* the nearest integer to n / d, for n >= 0 *)
Nearest(n, d) == (2 * n + d) \div (2 * d)

(* the values the builder holds under a GPS tag *)
GpsValues(b, tag) ==
    {b.gps_entries[i].value : i \in {k \in 1..Len(b.gps_entries) : b.gps_entries[k].tag = tag}}

(* C22: a bearing in [0, 360) is stored as (round(bearing*100), 100) with
   reference "T" for image direction and destination bearing alike, an
   altitude in [-500, 10000] as (round(|altitude|*1000), 1000) with
   reference 0: each numerator is the nearest integer to the scaled value. *)
C22_NearestRationals ==
    Encoded =>
        /\ (meta.bearing.some /\ meta.bearing.v >= 0 /\ meta.bearing.v < 360 * BearingUnit) =>
              LET r == Rational(Nearest(meta.bearing.v, BearingUnit \div 100), 100)
              IN /\ GpsValues(Built, GPS_IMG_DIRECTION) = {r}
                 /\ GpsValues(Built, GPS_DEST_BEARING) = {r}
                 /\ GpsValues(Built, GPS_IMG_DIRECTION_REF) = {Ascii(<<84>>)}
                 /\ GpsValues(Built, GPS_DEST_BEARING_REF) = {Ascii(<<84>>)}
        /\ (meta.altitude.some /\ meta.altitude.v >= -500 * AltUnit
            /\ meta.altitude.v <= 10000 * AltUnit) =>
              /\ GpsValues(Built, GPS_ALTITUDE)
                    = {Rational(Nearest(Abs(meta.altitude.v), AltUnit \div 1000), 1000)}
              /\ GpsValues(Built, GPS_ALTITUDE_REF) = {Short(0)}

(* C23: the UserComment add_provenance writes, the 8-byte "ASCII\0\0\0"
   header followed by the compact JSON, is at most 1000 bytes long, so the
   count of the UserComment entry never exceeds 1000. *)
C23_CommentAtMost1000 ==
    Encoded =>
        /\ Built.user_comment.some
        /\ starts_with(Built.user_comment.v, CharacterCode)
        /\ Len(Built.user_comment.v) <= 1000
        /\ \A i \in 1..ifd_count(seg, 8) :
              entry_tag(seg, 8, i) = USER_COMMENT => entry_count(seg, 8, i) <= 1000

(* C24: validate_photo_metadata leaves altitude, captured_at,
   location_source and bearing_source as they are, also an altitude outside
   [-500, 10000] and a timestamp outside the sane window; accuracy becomes
   max(0, accuracy). *)
C24_ValidateFrame ==
    Validated =>
        /\ meta.altitude = input.altitude
        /\ meta.captured_at = input.captured_at
        /\ meta.location_source = input.location_source
        /\ meta.bearing_source = input.bearing_source
        /\ meta.accuracy = (IF input.accuracy > 0 THEN input.accuracy ELSE 0)
        /\ DOMAIN meta = DOMAIN input

(* an altitude of 12000 m has passed the validator *)
C24_Witness ==
    /\ pc = "validated"
    /\ input.altitude = Some(120000000)
    /\ input.altitude.v > 10000 * AltUnit
    /\ meta.altitude = Some(120000000)

(* a time in Unix seconds outside 1970-01-01 .. 2100-01-01; 2100-01-01
   00:00:00 UTC is day 47482 of the Unix era *)
OutsideSaneWindow(t) ==
    \/ t.day < 0
    \/ t.day > 47482
    \/ (t.day = 47482 /\ t.sod > 0)

(* C25: validate_photo_metadata logs the invalid-captured_at warning exactly
   when captured_at, in the Unix seconds the encoder reads it as, lies
   outside 1970-01-01 .. 2100-01-01, and it never alters the value. *)
C25_WarningWindow ==
    Validated =>
        /\ captured_at_warning(input.captured_at) <=> OutsideSaneWindow(input.captured_at)
        /\ meta.captured_at = input.captured_at

(* the calls on one photo id: positions of the takes, the latest first-chunk
   call before position p (0 when there is none), and the chunks of the
   store calls from position f up to p, in call order *)
Takes(log) == SelectSeq([k \in 1..Len(log) |-> k], LAMBDA k : log[k].op = "take")

LastFirst(log, p) ==
    LET firsts == {k \in 1..(p - 1) : log[k].op = "store" /\ log[k].first}
    IN IF firsts = {} THEN 0 ELSE CHOOSE k \in firsts : \A l \in firsts : l <= k

StoredSince(log, f, p) ==
    Concat([i \in 1..(p - f) |->
               IF log[f + i - 1].op = "store" THEN log[f + i - 1].chunk ELSE <<>>])

SavesOf(id) == SelectSeq(saved, LAMBDA s : s.id = id)

(* what the calls on one id leave in the accumulator *)
HeldAfter(log) ==
    LET f == LastFirst(log, Len(log) + 1)
    IN IF f = 0 \/ \E k \in f..Len(log) : log[k].op = "take" THEN None
       ELSE Some(StoredSince(log, f, Len(log) + 1))

(* C26: under every interleaving of store_photo_chunk and
   save_photo_with_metadata calls on distinct photo ids, the bytes a save
   retrieves for an id are the concatenation, in call order, of the chunks
   stored under that id since its latest first-chunk call; what is held for
   an id follows from the calls on that id alone. *)
C26_ChunksPerId ==
    pc = "commands" =>
        \A id \in PhotoIds :
            LET log == stored.log[id]
                takes == Takes(log)
                saves == SavesOf(id)
            IN /\ Len(saves) = Len(takes)
               /\ \A j \in 1..Len(takes) :
                     saves[j].err # "Photo data not found" =>
                        /\ LastFirst(log, takes[j]) > 0
                        /\ saves[j].bytes
                              = StoredSince(log, LastFirst(log, takes[j]), takes[j])
               /\ chunks[id] = HeldAfter(log)

(* two uploads under way together: "a" was stored in two chunks and saved
   with the two joined, while a chunk of "b" is held *)
C26_Witness ==
    /\ pc = "commands"
    /\ Len(saved) >= 1
    /\ saved[1].id = "a"
    /\ saved[1].bytes = StartChunk \o EndChunk
    /\ Len(stored.log["a"]) = 3
    /\ stored.log["a"][2].op = "store"
    /\ ~stored.log["a"][2].first
    /\ chunks["b"] = Some(EndChunk)

(* the position, among the calls on its photo id, of the take of save i *)
TakeOf(i) ==
    Takes(stored.log[saved[i].id])[Cardinality({k \in 1..i : saved[k].id = saved[i].id})]

(* no first-chunk call on the id at the positions from..to of its calls *)
NoFirstChunk(log, from, to) ==
    \A k \in from..to : ~(log[k].op = "store" /\ log[k].first)

(* C27: save_photo_with_metadata removes the entry of its photo id before
   it processes anything (the removal is the same on every platform), so
   whatever the save comes to, the id is absent from the accumulator until a
   new first chunk arrives, and a second save of the id without a new first
   chunk fails with "Photo data not found" and saves nothing. *)
C27_ConsumedOnce ==
    pc = "commands" =>
        \A i \in 1..Len(saved) :
            LET log == stored.log[saved[i].id]
                p == TakeOf(i)
            IN /\ NoFirstChunk(log, p + 1, Len(log)) => chunks[saved[i].id] = None
               /\ (\E q \in 1..(p - 1) :
                      log[q].op = "take" /\ NoFirstChunk(log, q + 1, p - 1))
                     => /\ saved[i].state = "err"
                        /\ saved[i].err = "Photo data not found"
                        /\ saved[i].bytes = <<>>
                        /\ i \notin storage
                        /\ i \notin database

(* a save of "a" has failed on the storage, a second save of "a" found no
   data, and "a" is absent *)
C27_Witness ==
    /\ pc = "commands"
    /\ Len(saved) = 2
    /\ saved[1].id = "a"
    /\ saved[1].err = "Failed to save photo"
    /\ saved[2].id = "a"
    /\ saved[2].err = "Photo data not found"
    /\ chunks["a"] = None
    /\ storage \subseteq {1}
    /\ database = {}

(* a step that is a store_photo_chunk call on `id`, and the call *)
IsStoreOn(id) ==
    /\ stored'.count = stored.count + 1
    /\ Len(stored'.log[id]) = Len(stored.log[id]) + 1

StoreMade(id) == stored'.log[id][Len(stored'.log[id])]

(* C28: store_photo_chunk with is_first_chunk = false on a photo id without
   an entry returns Err and leaves the whole accumulator as it was; with
   is_first_chunk = true it succeeds and the id holds the new chunk alone. *)
C28_StoreWithoutEntry ==
    [][\A id \in PhotoIds :
          IsStoreOn(id) =>
             /\ (~StoreMade(id).first /\ ~chunks[id].some)
                   => (~StoreMade(id).ok /\ chunks' = chunks)
             /\ StoreMade(id).first
                   => /\ StoreMade(id).ok
                      /\ chunks' = [chunks EXCEPT ![id] = Some(StoreMade(id).chunk)]]_vars

(* "a" was started and saved, and a later chunk without a new first one
   was refused *)
C28_Witness ==
    /\ pc = "commands"
    /\ Len(stored.log["a"]) = 3
    /\ stored.log["a"][1].op = "store" /\ stored.log["a"][1].first
    /\ stored.log["a"][2].op = "take" /\ stored.log["a"][2].ok
    /\ stored.log["a"][3].op = "store"
    /\ ~stored.log["a"][3].first
    /\ ~stored.log["a"][3].ok
    /\ chunks["a"] = None

(* C29: release_permission_lock(r) frees the lock and returns Ok exactly
   when r holds it; with another holder or none it returns Err and leaves
   the lock as it was.  So a held lock changes only by a release from its
   holder, and get_permission_lock_holder changes nothing. *)
C29_ReleaseByHolderOnly ==
    \A i \in 1..Len(lockLog) :
        /\ lockLog[i].op = "release" =>
              /\ lockLog[i].result = "Ok" <=> lockLog[i].before = Some(lockLog[i].requester)
              /\ lockLog[i].result = "Ok" => lockLog[i].after = None
              /\ lockLog[i].result # "Ok" => lockLog[i].after = lockLog[i].before
        /\ lockLog[i].op = "get" =>
              /\ lockLog[i].after = lockLog[i].before
              /\ lockLog[i].result = lockLog[i].before
        /\ (lockLog[i].before.some /\ lockLog[i].after # lockLog[i].before) =>
              /\ lockLog[i].op = "release"
              /\ lockLog[i].requester = lockLog[i].before.v
        /\ lockLog[i].before = (IF i = 1 THEN None ELSE lockLog[i - 1].after)
        /\ i = Len(lockLog) => holder = lockLog[i].after

(* the camera took the lock, a release by the location requester was
   refused, and the camera's own release freed it *)
C29_Witness ==
    /\ Len(lockLog) = 3
    /\ lockLog[1].op = "acquire" /\ lockLog[1].requester = "camera"
    /\ lockLog[2].op = "release" /\ lockLog[2].requester = "location"
    /\ lockLog[2].result = "Lock held by another requester"
    /\ lockLog[2].after = Some("camera")
    /\ lockLog[3].op = "release" /\ lockLog[3].requester = "camera"
    /\ lockLog[3].result = "Ok"
    /\ holder = None

-----------------------------------------------------------------------------
(* device_photos.rs: the metadata on its way through save_photo_from_bytes:
   determine_final_bearing, validate_photo_metadata,
   create_exif_segment_structured, add_photo_to_database *)

(* str::to_lowercase on ASCII text *)
to_lowercase(s) == [i \in 1..Len(s) |-> IF s[i] >= 65 /\ s[i] <= 90 THEN s[i] + 32 ELSE s[i]]

(* str::contains *)
contains(s, sub) ==
    \E i \in 0..(Len(s) - Len(sub)) : SubSeq(s, i + 1, i + Len(sub)) = sub

SensorKeywords ==
    {<<115, 101, 110, 115, 111, 114>>,
     <<99, 111, 109, 112, 97, 115, 115>>,
     <<116, 97, 117, 114, 105>>,
     <<103, 121, 114, 111>>,
     <<109, 97, 103, 110, 101, 116, 111, 109, 101, 116, 101, 114>>,
     <<114, 111, 116, 97, 116, 105, 111, 110>>,
     <<109, 97, 103, 110, 101, 116, 105, 99>>,
     <<101, 110, 104, 97, 110, 99, 101, 100>>}

is_sensor_bearing_source(bearing_source) ==
    \E k \in SensorKeywords : contains(to_lowercase(bearing_source), k)

(* what get_bearing_for_timestamp can answer: Err, or a response with
   success, found and true_heading *)
BearingResponse(err, success, found, true_heading) ==
    [err |-> err, success |-> success, found |-> found, true_heading |-> true_heading]

BearingResponses ==
    {BearingResponse(TRUE, FALSE, None, None),
     BearingResponse(FALSE, FALSE, None, None),
     BearingResponse(FALSE, TRUE, None, Some(123400)),
     BearingResponse(FALSE, TRUE, Some(FALSE), Some(123400)),
     BearingResponse(FALSE, TRUE, Some(TRUE), None)}
    \cup {BearingResponse(FALSE, TRUE, Some(TRUE), Some(h)) :
            h \in {123400, -10000, 400000, 360000}}

DetermineBearingKeepsFrontend(metadata, response) == metadata.bearing

determine_final_bearing(metadata, response) ==
    IF is_sensor_bearing_source(metadata.bearing_source)
    THEN IF ~response.err /\ response.success /\ response.found.some /\ response.found.v
            /\ response.true_heading.some
         THEN Some(response.true_heading.v)
         ELSE metadata.bearing
    ELSE metadata.bearing

(* the record handed to add_photo_to_database *)
plugin_photo(validated_metadata) ==
    [latitude |-> validated_metadata.latitude,
     longitude |-> validated_metadata.longitude,
     altitude |-> validated_metadata.altitude,
     bearing |-> validated_metadata.bearing,
     captured_at |-> validated_metadata.captured_at,
     accuracy |-> validated_metadata.accuracy,
     location_source |-> validated_metadata.location_source,
     bearing_source |-> validated_metadata.bearing_source]

Compass == <<67, 111, 109, 112, 97, 115, 115>>

SaveInputs ==
    {[Base EXCEPT !.latitude = la, !.altitude = a, !.bearing = be, !.accuracy = c,
                  !.bearing_source = s] :
        la \in {Deg5(4885660), Deg5(-9100000)}, a \in {None, Some(350000)},
        be \in {None, Some(274500), Some(720000)}, c \in {50, -10},
        s \in {Manual, Sensor, Compass, Unknown}}

MetaInit ==
    /\ pc = "received"
    /\ input \in SaveInputs
    /\ meta = DefaultMetadata
    /\ meta2 = DefaultMetadata
    /\ now = ClockStart
    /\ ticks = 0
    /\ calls = <<>>
    /\ seg = <<>>
    /\ seg2 = <<>>
    /\ jpeg = jpeg_without_exif
    /\ decoded = NoResult
    /\ IdleRead
    /\ IdleSave
    /\ IdleLock

(* metadata.bearing = determine_final_bearing(&app_handle, &metadata).await *)
DetermineBearing ==
    /\ pc = "received"
    /\ \E response \in BearingResponses :
          meta' = [input EXCEPT !.bearing = determine_final_bearing(input, response)]
    /\ pc' = "determined"
    /\ UNCHANGED <<input, meta2, now, ticks, calls, seg, seg2, jpeg, decoded>>
    /\ UNCHANGED <<readVars, saveVars, lockVars>>

(* let validated_metadata = validate_photo_metadata(metadata.clone()) *)
ValidateForSave ==
    /\ pc = "determined"
    /\ meta2' = validate_photo_metadata(meta)
    /\ pc' = "checked"
    /\ UNCHANGED <<input, meta, now, ticks, calls, seg, seg2, jpeg, decoded>>
    /\ UNCHANGED <<readVars, saveVars, lockVars>>

(* create_exif_segment_structured(&validated_metadata) and jpeg.set_exif *)
EmbedForSave ==
    /\ pc = "checked"
    /\ seg' = create_exif_segment_structured(meta2, now)
    /\ jpeg' = set_exif(jpeg, create_exif_segment_structured(meta2, now))
    /\ calls' = Append(calls, now)
    /\ pc' = "embedded"
    /\ UNCHANGED <<input, meta, meta2, now, ticks, seg2, decoded>>
    /\ UNCHANGED <<readVars, saveVars, lockVars>>

(* add_photo_to_database(plugin_photo) *)
RecordPhoto ==
    /\ pc = "embedded"
    /\ database' = {plugin_photo(meta2)}
    /\ pc' = "recorded"
    /\ UNCHANGED <<chunks, storage, uploads, stored, saved>>
    /\ UNCHANGED <<input, meta, meta2, now, ticks, calls, seg, seg2, jpeg, decoded>>
    /\ UNCHANGED <<readVars, lockVars>>

MetaNext == DetermineBearing \/ ValidateForSave \/ EmbedForSave \/ RecordPhoto

MetaSpec == MetaInit /\ [][MetaNext]_vars

(* the rationals the segment holds under a GPS tag, read from its bytes *)
EmbeddedRationals(data, tag) ==
    LET g == gps_ifd_at(data)
    IN {[i \in 1..entry_count(data, g, k) |->
            <<loadu32(data, entry_slot(data, g, k) + 8 * (i - 1), TRUE),
              loadu32(data, entry_slot(data, g, k) + 8 * (i - 1) + 4, TRUE)>>] :
        k \in {j \in 1..ifd_count(data, g) : entry_tag(data, g, j) = tag}}

(* the range invariants of validated metadata *)
InRanges(m) ==
    /\ m.latitude >= -90 * DegUnit /\ m.latitude <= 90 * DegUnit
    /\ m.longitude >= -180 * DegUnit /\ m.longitude <= 180 * DegUnit
    /\ m.bearing.some => (m.bearing.v >= 0 /\ m.bearing.v < 360 * BearingUnit)
    /\ m.accuracy >= 0
    /\ m.orientation_code.some /\ m.orientation_code.v \in {1, 3, 6, 8}

(* the segment holds the coordinates, altitude and bearing of record r *)
EmbedsRecord(data, r) ==
    /\ EmbeddedRationals(data, GPS_LATITUDE) = {dms(Abs(r.latitude))}
    /\ EmbeddedRationals(data, GPS_LONGITUDE) = {dms(Abs(r.longitude))}
    /\ EmbeddedRationals(data, GPS_ALTITUDE)
          = (IF r.altitude.some
             THEN {<<<<as_u32(Abs(r.altitude.v), AltUnit \div 1000), 1000>>>>} ELSE {})
    /\ EmbeddedRationals(data, GPS_IMG_DIRECTION)
          = (IF r.bearing.some
             THEN {<<<<as_u32(r.bearing.v, BearingUnit \div 100), 100>>>>} ELSE {})

(* C30: in save_photo_from_bytes the bearing of the sensor database is put
   in before validate_photo_metadata and validation comes before encoding:
   the metadata given to create_exif_segment_structured is within the
   ranges, the bearing too when the database supplied it, and the latitude,
   longitude, altitude, bearing and accuracy recorded in the photo database
   are the validated values the segment holds. *)
C30_ValidatedThenEmbedded ==
    /\ pc \in {"embedded", "recorded"} =>
          /\ InRanges(meta2)
          /\ meta2.bearing.some <=> meta.bearing.some
          /\ EmbedsRecord(seg, plugin_photo(meta2))
          /\ jpeg_exif(jpeg) = Some(seg)
    /\ pc = "recorded" =>
          \A r \in database :
             /\ r = plugin_photo(meta2)
             /\ EmbedsRecord(seg, r)
             /\ r.accuracy >= 0
             /\ r.bearing.some => (r.bearing.v >= 0 /\ r.bearing.v < 360 * BearingUnit)
    /\ pc = "recorded" => database # {}

(* the sensor database supplied a heading of 400 degrees for a photo whose
   frontend bearing was 274.5: 40 degrees were embedded and recorded *)
C30_Witness ==
    /\ pc = "recorded"
    /\ input.bearing = Some(274500)
    /\ is_sensor_bearing_source(input.bearing_source)
    /\ meta.bearing = Some(400000)
    /\ meta2.bearing = Some(40000)
    /\ EmbeddedRationals(seg, GPS_IMG_DIRECTION) = {<<<<4000, 100>>>>}
    /\ \E r \in database : r.bearing = Some(40000)

====
